---- MODULE Spec2Model ----
(***************************************************************************)
(* State-machine model of the LeetCode POTD dashboard's session bridge and *)
(* submission workflow:                                                    *)
(*   - extension/serviceWorker.js and extension/contentScript.js           *)
(*     (the cookie relay),                                                 *)
(*   - LeetCodeSessionConnector (frontend/src/components/ReferencesList.tsx*)
(*     lines 192 ff.),                                                     *)
(*   - SolutionViewer (frontend/src/components/SolutionViewer.tsx).        *)
(* Each subsystem has its own specification (SpecExt, SpecConn,            *)
(* SpecViewer) over the variables it owns; the others stay at their        *)
(* initial values.                                                         *)
(***************************************************************************)
EXTENDS Integers, Sequences, FiniteSets, TLC

(***************************************************************************)
(* Bounds of the model.                                                    *)
(***************************************************************************)
\* longest cookie store returned by the browser
MaxCookies == 2
\* window message events dispatched to the content script in one behaviour
MaxEvents == 2
\* async functions of LeetCodeSessionConnector in flight at the same time
MaxConnTasks == 2
\* handleSubmit runs of SolutionViewer in one behaviour
MaxRuns == 1
MaxEnvLen == 3

(***************************************************************************)
(* JavaScript values.  null and undefined are distinct sentinels, and      *)
(* both differ from the empty string.                                      *)
(***************************************************************************)
Null == "<null>"
Undefined == "<undefined>"

\* x ?? d
Coalesce(x, d) == IF x = Null \/ x = Undefined THEN d ELSE x

\* truthiness of a string-or-null value: !x is true for null, undefined, ''
Falsy(x) == x = Null \/ x = Undefined \/ x = ""

REQUEST_TYPE == "LEETCODE_FETCH_COOKIES_REQUEST"
RESPONSE_TYPE == "LEETCODE_FETCH_COOKIES_RESPONSE"
FETCH_COOKIES == "LEETCODE_FETCH_COOKIES"

(***************************************************************************)
(* Cookies.                                                                *)
(***************************************************************************)
CookieNames == {"LEETCODE_SESSION", "csrftoken", "other"}
CookieValues == {"", "s1"}
CookieDomains == {"leetcode.com", "example.org"}
Cookie == [name : CookieNames, value : CookieValues, domain : CookieDomains]

RemoveAt(seq, i) == SubSeq(seq, 1, i - 1) \o SubSeq(seq, i + 1, Len(seq))
RECURSIVE SeqsUpTo(_, _)
SeqsUpTo(S, n) ==
    IF n = 0 THEN {<<>>}
    ELSE LET shorter == SeqsUpTo(S, n - 1)
         IN shorter \cup {Append(s, x) : s \in {t \in shorter : Len(t) = n - 1}, x \in S}

CookieStores == SeqsUpTo(Cookie, MaxCookies)

\* chrome.cookies.getAll({ domain }): the cookies of the store whose domain
\* matches, in store order
GetAllWrong(store, domain) == store
GetAll(store, domain) == SelectSeq(store, LAMBDA c : c.domain = domain)

\* Array.prototype.find by cookie name: index of the first match, 0 if none
Find(cookies, name) ==
    LET hits == {i \in 1..Len(cookies) : cookies[i].name = name}
    IN IF hits = {} THEN 0 ELSE CHOOSE i \in hits : \A j \in hits : i <= j

\* an extension payload; a field the object literal does not set is undefined
Payload(ok, error, ls, csrf) ==
    [ok |-> ok, error |-> error, leetcodeSession |-> ls, csrfToken |-> csrf]

NoError == "<no lastError>"
RuntimeErrors == {"cookies API failed"}

\* the chrome.cookies.getAll callback of the service worker: what it passes
\* to sendResponse for a cookie store and chrome.runtime.lastError
CookiesCallbackOkAny(store, lastError) ==
    IF lastError # NoError
    THEN Payload(FALSE, lastError, Undefined, Undefined)
    ELSE LET cookies == GetAll(store, "leetcode.com")
             s == Find(cookies, "LEETCODE_SESSION")
             c == Find(cookies, "csrftoken")
         IN Payload(s # 0 \/ c # 0,
                    Undefined,
                    IF s = 0 THEN Null ELSE cookies[s].value,
                    IF c = 0 THEN Null ELSE cookies[c].value)
CookiesCallback(store, lastError) ==
    IF lastError # NoError
    THEN Payload(FALSE, lastError, Undefined, Undefined)
    ELSE LET cookies == GetAll(store, "leetcode.com")
             s == Find(cookies, "LEETCODE_SESSION")
             c == Find(cookies, "csrftoken")
         IN Payload(s # 0 /\ c # 0,
                    Undefined,
                    IF s = 0 THEN Null ELSE cookies[s].value,
                    IF c = 0 THEN Null ELSE cookies[c].value)

\* the two cookies the bridge is documented to capture, as the query
\* restricted to leetcode.com sees them
Captured(store) ==
    SelectSeq(store, LAMBDA c : c.domain = "leetcode.com"
                                /\ c.name \in {"LEETCODE_SESSION", "csrftoken"})

(***************************************************************************)
(* State.                                                                  *)
(***************************************************************************)
VARIABLES
    \* service worker, one LEETCODE_FETCH_COOKIES exchange at a time
    swPc,          \* "idle" | "reading" | "responded"
    swStore,       \* the cookie jar chrome.cookies.getAll read
    swLastError,   \* chrome.runtime.lastError in the getAll callback
    swResponse,    \* what was passed to sendResponse
    swMessage,     \* type of the runtime message last delivered (history)
    \* content script relay: one record per accepted REQUEST message
    reqs,
    \* LeetCodeSessionConnector (useState)
    connStatus, connMessage, connected, connTokens,
    connTasks,          \* its async functions in flight
    backendSession,     \* the session the backend holds
    connEvent,          \* what the step just taken did (history)
    \* SolutionViewer: props
    questionSlug, displayCode,
    \* SolutionViewer: useState
    isSubmitting, submissionSteps, submissionResult, submissionError,
    \* SolutionViewer: the render last committed (what closures and effects
    \* see), whether state or props changed since, and the isSubmitDisabled
    \* last reported through onSubmitStateChange
    renderedSlug, renderedCode, dirty, buttonDisabled,
    localStorage,       \* window.localStorage, by question slug
    runs,               \* handleSubmit runs in flight
    nextRun,            \* number of the next handleSubmit run
    lastPersisted,      \* by slug: the values the persistence effect last
                        \* wrote or removed the entry for (history)
    viewEvent,          \* what the step just taken did (history)
    \* lib/api.ts
    viteApiBase,        \* import.meta.env.VITE_API_BASE
    apiBaseUrl,         \* API_BASE_URL
    apiUrl,             \* url of the request last made
    \* pages/Dashboard (lib/types.ts 119-136)
    language,           \* useState('python')
    potdQuery,          \* the query ['potd']
    refsQueries,        \* the queries ['refs', slug, language], by key
    prevRefs,           \* data of the last observed references query that
                        \* had data (previousData of placeholderData)
    dashCalls,          \* number of getPOTD and getReferences calls made
    dashEvent           \* the call the step just taken made (history)

swVars == <<swPc, swStore, swLastError, swResponse, swMessage>>
extVars == <<reqs>>
connVars == <<connStatus, connMessage, connected, connTokens, connTasks,
              backendSession, connEvent>>
viewVars == <<questionSlug, displayCode, isSubmitting, submissionSteps,
              submissionResult, submissionError, renderedSlug, renderedCode,
              dirty, buttonDisabled, localStorage, runs, nextRun,
              lastPersisted, viewEvent>>
VARIABLES
    apiFetch,           \* how the fetch of the last request settled
    apiOutcome          \* what the last request threw or returned
apiVars == <<viteApiBase, apiBaseUrl, apiUrl, apiFetch, apiOutcome>>
dashVars == <<language, potdQuery, refsQueries, prevRefs, dashCalls, dashEvent>>
VARIABLES historySlug, recentSubmissions, hasMoreSubmissions, submissionsError,
          isLoadingSubmissions, historyLoads, historyNext, historyLatest,
          submitSlug
histVars == <<historySlug, recentSubmissions, hasMoreSubmissions, submissionsError,
              isLoadingSubmissions, historyLoads, historyNext, historyLatest,
              submitSlug>>

VARIABLES tokListener, tokTimer, tokSettles, tokResult, tokCalls, tokMessages,
          tokEvent
tokVars == <<tokListener, tokTimer, tokSettles, tokResult, tokCalls, tokMessages,
             tokEvent>>

VARIABLES decodeInput, decodeOutput
htmlVars == <<decodeInput, decodeOutput>>

vars == <<swVars, extVars, connVars, viewVars, apiVars, dashVars, histVars, tokVars,
          htmlVars>>

\* placeholder while nothing has been sent
NoPayload == Payload(FALSE, Undefined, Undefined, Undefined)

\* no runtime message has been delivered yet
NoMessage == "<no message>"

SwInit ==
    /\ swPc = "idle"
    /\ swStore = <<>>
    /\ swLastError = NoError
    /\ swResponse = NoPayload
    /\ swMessage = NoMessage

ExtInit ==
    /\ reqs = <<>>

Tokens(ls, csrf) == [leetcodeSession |-> ls, csrfToken |-> csrf]
NoTokens == Tokens(Null, Null)

\* an async function of the connector: which one, where it waits, the
\* arguments of its POST and the data of its last GET
ConnTask(kind, pc, tokens, data) ==
    [kind |-> kind, pc |-> pc, tokens |-> tokens, data |-> data]
NoData == [connected |-> FALSE, leetcode_session |-> Null, csrf_token |-> Null]

\* the step just taken: a RESPONSE message handled (its payload, whether
\* storeLeetCodeSession was called and with what), or a handleDisconnect
\* that ended (whether its DELETE had succeeded)
ConnEvent(kind, payload, stored, args, cleared) ==
    [kind |-> kind, payload |-> payload, stored |-> stored, args |-> args,
     cleared |-> cleared]
NoEvent == ConnEvent("none", NoPayload, FALSE, NoTokens, FALSE)

ConnInitWith(session) ==
    /\ connStatus = "idle"
    /\ connMessage = Null
    /\ connected = FALSE
    /\ connTokens = NoTokens
    \* the mount effect has called refreshStatus
    /\ connTasks = <<ConnTask("mount", "get", NoTokens, NoData)>>
    /\ backendSession = session
    /\ connEvent = NoEvent

\* the backend may hold a session stored before the page was loaded
ConnInit == \E session \in {NoTokens, Tokens("s1", "s1")} : ConnInitWith(session)
ConnIdle == ConnInitWith(NoTokens)

(***************************************************************************)
(* SolutionViewer values.  Steps, results and errors carry the number and  *)
(* the slug of the handleSubmit run that produced them (run 0: a run of an *)
(* earlier page load).                                                     *)
(***************************************************************************)
Slugs == {"two-sum", "lru-cache"}

Step(name, run, slug) == [step |-> name, run |-> run, slug |-> slug]
Result(run, slug) == [status_msg |-> "Accepted", run |-> run, slug |-> slug]
NoResult == [status_msg |-> Null, run |-> 0, slug |-> Null]
Err(msg, run, slug) == [msg |-> msg, run |-> run, slug |-> slug]
NoErr == Err(Null, 0, Null)

STORAGE_KEY_PREFIX == "leetcode-submission:"
\* getStorageKey; localStorage is indexed by the slug the key ends with
GetStorageKey(slug) == slug

\* localStorage.getItem of a key that is not there
Absent == <<>>
\* a stored text that JSON.parse rejects
CorruptText == <<"{corrupt">>
\* the stored text '{}'
EmptyObjectText == <<"{", "}">>

\* JSON.stringify({ steps, result, error })
JsonStringifyDropsError(steps, result, error) ==
    <<"{",
      <<"steps", "array", steps>>,
      <<"result", IF result = NoResult THEN "null" ELSE "object", result>>,
      "}">>
JsonStringify(steps, result, error) ==
    <<"{",
      <<"steps", "array", steps>>,
      <<"result", IF result = NoResult THEN "null" ELSE "object", result>>,
      <<"error", IF error = NoErr THEN "null" ELSE "string", error>>,
      "}">>

\* JSON.parse succeeds
JsonParses(text) == Len(text) >= 2 /\ text[1] = "{" /\ text[Len(text)] = "}"

\* parsed[key] is a value of the given JSON type
JsonHas(text, key, type) ==
    \E i \in 2..(Len(text) - 1) : text[i][1] = key /\ text[i][2] = type
JsonGet(text, key) ==
    text[CHOOSE i \in 2..(Len(text) - 1) : text[i][1] = key][3]

\* what the load effect sets from a stored text
LoadedSteps(text) ==
    IF text # Absent /\ JsonParses(text) /\ JsonHas(text, "steps", "array")
    THEN JsonGet(text, "steps") ELSE <<>>
LoadedResult(text) ==
    IF text # Absent /\ JsonParses(text) /\ JsonHas(text, "result", "object")
    THEN JsonGet(text, "result") ELSE NoResult
LoadedError(text) ==
    IF text # Absent /\ JsonParses(text) /\ JsonHas(text, "error", "string")
    THEN JsonGet(text, "error") ELSE NoErr

\* the test of the persistence effect before removeItem
SnapshotEmptyIgnoresError(steps, result, error) ==
    Len(steps) = 0 /\ result = NoResult
SnapshotEmpty(steps, result, error) ==
    Len(steps) = 0 /\ result = NoResult /\ Falsy(error.msg)

\* what the persistence effect leaves under the key
PersistedAlwaysStores(steps, result, error) ==
    JsonStringify(steps, result, error)
Persisted(steps, result, error) ==
    IF SnapshotEmpty(steps, result, error) THEN Absent
    ELSE JsonStringify(steps, result, error)

\* texts an earlier page load can have left under the key of a slug
EarlierTexts(slug) ==
    {Absent, CorruptText, EmptyObjectText,
     JsonStringify(<<Step("submit", 0, slug)>>, Result(0, slug), NoErr)}

\* a handleSubmit run: its closure (slug, code), where it waits, the tokens
\* the extension returned, whether its component is still mounted, and how
\* far it got (history)
Run(id, slug, code) ==
    [id |-> id, slug |-> slug, code |-> code, pc |-> "tokens",
     tokens |-> NoTokens, attached |-> TRUE,
     resolved |-> FALSE, stored |-> FALSE, submitted |-> FALSE]

\* the step just taken: the handleSubmit run that started or ended, the
\* slug loadRecentSubmissions was called for, and whether the run ended in
\* a failure of the cookie fetch, the session store or the submit call
RunEvent(kind, run, history, failed) ==
    [kind |-> kind, run |-> run, history |-> history, failed |-> failed]
ViewEvent(kind, run, history) == RunEvent(kind, run, history, FALSE)
NoHistory == "<no history load>"
NoViewEvent == ViewEvent("none", 0, NoHistory)

\* the three values of a snapshot
Values(steps, result, error) == [steps |-> steps, result |-> result, error |-> error]
NoValues == Values(<<>>, NoResult, NoErr)
\* the entry is not one the persistence effect wrote
Foreign == Values(<<>>, NoResult, Err("<foreign>", 0, Null))

Unmounted == "<not rendered>"

ViewInitWith(slug, code, storage) ==
    /\ questionSlug = slug
    /\ displayCode = code
    /\ isSubmitting = FALSE
    /\ submissionSteps = <<>>
    /\ submissionResult = NoResult
    /\ submissionError = NoErr
    /\ renderedSlug = Unmounted
    /\ renderedCode = Null
    /\ dirty = TRUE
    /\ buttonDisabled = TRUE
    /\ localStorage = storage
    /\ runs = <<>>
    /\ nextRun = 1
    /\ lastPersisted =
          [x \in Slugs |->
             IF storage[x] = Persisted(LoadedSteps(storage[x]),
                                       LoadedResult(storage[x]),
                                       LoadedError(storage[x]))
             THEN Values(LoadedSteps(storage[x]), LoadedResult(storage[x]),
                         LoadedError(storage[x]))
             ELSE Foreign]
    /\ viewEvent = NoViewEvent

ViewInit ==
    \E slug \in {Null}, code \in {Null, "code"},
       storage \in [Slugs -> UNION {EarlierTexts(x) : x \in Slugs}] :
        /\ \A x \in Slugs : storage[x] \in EarlierTexts(x)
        /\ ViewInitWith(slug, code, storage)
ViewIdle == ViewInitWith(Null, Null, [x \in Slugs |-> Absent])

(***************************************************************************)
(* The submission history of SolutionViewer: loadRecentSubmissions, the    *)
(* effect that calls it for the questionSlug of a render, the Refresh      *)
(* button and the reload at the end of handleSubmit.  historySlug is the   *)
(* questionSlug of the committed render; a change of it is committed and   *)
(* its effect run in the same step.  Every getRecentSubmissions request    *)
(* has a number, and a response carries the slug and the number of its     *)
(* request.                                                                *)
(***************************************************************************)
MaxHistoryLoads == 3

\* response.submissions of the request req for slug, answered with has_next
Submissions(slug, req, has_next) == [slug |-> slug, req |-> req, has_next |-> has_next]
\* the empty list
NoSubmissions == Submissions(Null, 0, FALSE)
HistoryLoad(slug, req) == [slug |-> slug, req |-> req]
HistoryErrors == {"Network error while requesting", "detail"}

HistInit ==
    /\ historySlug = Null
    /\ recentSubmissions = NoSubmissions
    /\ hasMoreSubmissions = FALSE
    /\ submissionsError = Null
    /\ isLoadingSubmissions = FALSE
    /\ historyLoads = <<>>
    /\ historyNext = 1
    /\ historyLatest = [slug \in Slugs |-> 0]
    /\ submitSlug = Null
HistIdle == HistInit

\* requestTokensFromExtension has not been called
TokEvent(kind, ev, outcome) == [kind |-> kind, event |-> ev, outcome |-> outcome]
NoWindowEvent == [source |-> "none", hasData |-> FALSE, type |-> "OTHER"]
NoOutcome == [kind |-> "none", payload |-> NoPayload]
Pending == [ok |-> FALSE, tokens |-> NoTokens, error |-> "<pending>"]
TokInit ==
    /\ tokListener = FALSE
    /\ tokTimer = FALSE
    /\ tokSettles = 0
    /\ tokResult = Pending
    /\ tokCalls = 0
    /\ tokMessages = 0
    /\ tokEvent = TokEvent("none", NoWindowEvent, NoOutcome)
TokIdle == TokInit

\* decodeHtml has not been called
NotDecoded == <<"<not decoded>">>
HtmlInitWith(snippet) ==
    /\ decodeInput = snippet
    /\ decodeOutput = NotDecoded
HtmlIdle == HtmlInitWith(<<>>)

\* loadRecentSubmissions of a render whose questionSlug is slug, up to its
\* await
LoadRecentSubmissions(slug) ==
    IF Falsy(slug)
    THEN /\ recentSubmissions' = NoSubmissions
         /\ hasMoreSubmissions' = FALSE
         /\ submissionsError' = Null
         /\ UNCHANGED <<isLoadingSubmissions, historyLoads, historyNext, historyLatest>>
    ELSE /\ historyNext <= MaxHistoryLoads
         /\ isLoadingSubmissions' = TRUE
         /\ historyLoads' = Append(historyLoads, HistoryLoad(slug, historyNext))
         /\ historyLatest' = [historyLatest EXCEPT ![slug] = historyNext]
         /\ historyNext' = historyNext + 1
         /\ UNCHANGED <<recentSubmissions, hasMoreSubmissions, submissionsError>>

\* Dashboard renders the viewer with another questionSlug (that of the
\* POTD or of the references now shown): the effect
HistoryEffect(slug) ==
    /\ slug # historySlug
    /\ historySlug' = slug
    /\ LoadRecentSubmissions(slug)
    /\ UNCHANGED submitSlug
    /\ UNCHANGED <<swVars, extVars, connVars, viewVars, apiVars, dashVars, tokVars, htmlVars>>

\* a click on Refresh
HistoryRefresh ==
    /\ ~(isLoadingSubmissions \/ Falsy(historySlug))
    /\ LoadRecentSubmissions(historySlug)
    /\ UNCHANGED <<historySlug, submitSlug>>
    /\ UNCHANGED <<swVars, extVars, connVars, viewVars, apiVars, dashVars, tokVars, htmlVars>>

\* handleSubmit is called and passes its guards: the run holds the
\* loadRecentSubmissions of its render
HistorySubmitStart ==
    /\ submitSlug = Null
    /\ ~Falsy(historySlug)
    /\ submitSlug' = historySlug
    /\ UNCHANGED <<historySlug, recentSubmissions, hasMoreSubmissions,
                   submissionsError, isLoadingSubmissions, historyLoads,
                   historyNext, historyLatest>>
    /\ UNCHANGED <<swVars, extVars, connVars, viewVars, apiVars, dashVars, tokVars, htmlVars>>

\* the finally of handleSubmit: void loadRecentSubmissions()
HistorySubmitFinally ==
    /\ submitSlug # Null
    /\ LoadRecentSubmissions(submitSlug)
    /\ submitSlug' = Null
    /\ UNCHANGED historySlug
    /\ UNCHANGED <<swVars, extVars, connVars, viewVars, apiVars, dashVars, tokVars, htmlVars>>

\* getRecentSubmissions of a load settles: try, catch and finally
HistorySettle(i, ok, has_next, error) ==
    LET load == historyLoads[i] IN
    /\ IF ok
       THEN /\ recentSubmissions' = Submissions(load.slug, load.req, has_next)
            /\ hasMoreSubmissions' = has_next
            /\ submissionsError' = Null
       ELSE /\ submissionsError' = error
            /\ UNCHANGED <<recentSubmissions, hasMoreSubmissions>>
    /\ isLoadingSubmissions' = FALSE
    /\ historyLoads' = RemoveAt(historyLoads, i)
    /\ UNCHANGED <<historySlug, historyNext, historyLatest, submitSlug>>
    /\ UNCHANGED <<swVars, extVars, connVars, viewVars, apiVars, dashVars, tokVars, htmlVars>>

HistoryNext ==
    \/ \E slug \in Slugs : HistoryEffect(slug)
    \/ HistoryRefresh
    \/ HistorySubmitStart
    \/ HistorySubmitFinally
    \/ \E i \in 1..Len(historyLoads) :
          \/ \E has_next \in BOOLEAN : HistorySettle(i, TRUE, has_next, Null)
          \/ \E error \in HistoryErrors : HistorySettle(i, FALSE, FALSE, error)

(***************************************************************************)
(* decodeHtml of SolutionViewer.  A string is the sequence of its          *)
(* characters; String.replace with a global pattern replaces the matches   *)
(* found from left to right, and each replace works on the result of the   *)
(* one before it.                                                          *)
(***************************************************************************)
MaxFragments == 3

\* does s start with pattern
StartsWith(s, pattern) ==
    Len(s) >= Len(pattern) /\ SubSeq(s, 1, Len(pattern)) = pattern

\* s.replace(/pattern/g, replacement) for a literal pattern
RECURSIVE ReplaceAll(_, _, _)
ReplaceAll(s, pattern, replacement) ==
    IF s = <<>> THEN <<>>
    ELSE IF StartsWith(s, pattern)
    THEN replacement \o ReplaceAll(SubSeq(s, Len(pattern) + 1, Len(s)), pattern, replacement)
    ELSE <<s[1]>> \o ReplaceAll(Tail(s), pattern, replacement)

\* the length of the match of /<br\s*\/?>/i at the start of s, 0 if none
RECURSIVE SpacesFrom(_, _)
SpacesFrom(s, i) ==
    IF i <= Len(s) /\ s[i] \in {" ", "\t", "\n"} THEN 1 + SpacesFrom(s, i + 1) ELSE 0
BrMatch(s) ==
    IF Len(s) >= 4 /\ s[1] = "<" /\ s[2] \in {"b", "B"} /\ s[3] \in {"r", "R"}
    THEN LET i == 4 + SpacesFrom(s, 4)
             j == IF i <= Len(s) /\ s[i] = "/" THEN i + 1 ELSE i
         IN IF j <= Len(s) /\ s[j] = ">" THEN j ELSE 0
    ELSE 0
\* s.replace(/<br\s*\/?>/gi, '\n')
RECURSIVE ReplaceBr(_)
ReplaceBr(s) ==
    IF s = <<>> THEN <<>>
    ELSE IF BrMatch(s) > 0
    THEN <<"\n">> \o ReplaceBr(SubSeq(s, BrMatch(s) + 1, Len(s)))
    ELSE <<s[1]>> \o ReplaceBr(Tail(s))

LT == <<"&", "l", "t", ";">>
GT == <<"&", "g", "t", ";">>
AMP == <<"&", "a", "m", "p", ";">>
QUOT == <<"&", "q", "u", "o", "t", ";">>
APOS == <<"&", "#", "3", "9", ";">>

DecodeHtml(snippet) ==
    ReplaceBr(
      ReplaceAll(
        ReplaceAll(
          ReplaceAll(
            ReplaceAll(
              ReplaceAll(snippet, LT, <<"<">>),
              GT, <<">">>),
            AMP, <<"&">>),
          QUOT, <<"\"">>),
        APOS, <<"'">>))

\* the HTML-escaping of a string: each of < > & " ' replaced by its entity
RECURSIVE EscapeHtml(_)
EscapeHtml(s) ==
    IF s = <<>> THEN <<>>
    ELSE (CASE s[1] = "<" -> LT
            [] s[1] = ">" -> GT
            [] s[1] = "&" -> AMP
            [] s[1] = "\"" -> QUOT
            [] s[1] = "'" -> APOS
            [] OTHER -> <<s[1]>>) \o EscapeHtml(Tail(s))

\* the pieces code snippets are made of here: the five characters, a
\* letter, and text that reads like the tail of an entity or of a tag
Fragments ==
    {<<"<">>, <<">">>, <<"&">>, <<"\"">>, <<"'">>, <<"x">>,
     <<"l", "t", ";">>, <<"q", "u", "o", "t", ";">>, <<"b", "r">>}
RECURSIVE Concat(_)
Concat(pieces) == IF pieces = <<>> THEN <<>> ELSE Head(pieces) \o Concat(Tail(pieces))
Snippets == {Concat(pieces) : pieces \in SeqsUpTo(Fragments, MaxFragments)}

\* the <code> element of a post holds the escaping of decodeInput;
\* extractCodeFromContent calls decodeHtml on it
DecodeEscaped ==
    /\ decodeOutput = NotDecoded
    /\ decodeOutput' = DecodeHtml(EscapeHtml(decodeInput))
    /\ UNCHANGED decodeInput
    /\ UNCHANGED <<swVars, extVars, connVars, viewVars, apiVars, dashVars, histVars,
                   tokVars>>

HtmlNext == DecodeEscaped
(***************************************************************************)
(* pages/Dashboard (in lib/types.ts) and its two queries.  A query holds   *)
(* its data, its error and whether a fetch is in flight; a fetch that      *)
(* starts without data clears the error.  A change of the POTD slug or of  *)
(* the language is rendered in the same step: the references observer     *)
(* moves to the query of the new key and fetches it when it has no data or *)
(* its data is stale.  Retries of a failed fetch go on only while the      *)
(* query is observed.                                                      *)
(***************************************************************************)
MaxDashCalls == 4

\* the values LanguagePicker passes to setLanguage
DashLanguages == {"python", "cpp", ""}
RefKeys == Slugs \X DashLanguages

Query(data, error, fetching) == [data |-> data, error |-> error, fetching |-> fetching]

\* ReferencesResponse: the slug and language it is for, its items, and the
\* code of its community_solution (Null: no community solution)
Refs(slug, lang, items, code) ==
    [slug |-> slug, language |-> lang, items |-> items, code |-> code]
NoRefs == Refs(Null, Null, 0, Null)
RefsResponses(key) ==
    {Refs(key[1], key[2], 0, Null), Refs(key[1], key[2], 1, "code")}

\* what request throws: a network error or an ApiError
RequestErrors == {"Network error while requesting", "Request failed with status"}
\* getErrorMessage
GetErrorMessage(error) == IF Falsy(error) THEN Null ELSE error

\* new URLSearchParams({ slug }); if (language) params.set('lang', language)
GetReferencesParamsAlwaysLang(slug, lang) == [slug |-> slug, lang |-> lang]
GetReferencesParams(slug, lang) ==
    [slug |-> slug, lang |-> IF Falsy(lang) THEN Undefined ELSE lang]

\* a call of getPOTD or getReferences, and the component whose 'Try again'
\* made it
DashEvent(kind, params, by) == [kind |-> kind, params |-> params, by |-> by]
NoDashEvent == DashEvent("none", GetReferencesParams(Null, Null), "")

DashInit ==
    /\ language = "python"
    \* the first render has called getPOTD
    /\ potdQuery = Query(Null, Null, TRUE)
    /\ refsQueries = [key \in RefKeys |-> Query(NoRefs, Null, FALSE)]
    /\ prevRefs = NoRefs
    /\ dashCalls = 1
    /\ dashEvent = NoDashEvent

\* the query starts a fetch
StartFetch(q, nodata) ==
    Query(q.data, IF q.data = nodata THEN Null ELSE q.error, TRUE)

\* referencesQuery as Dashboard sees it: enabled: Boolean(potd?.slug),
\* placeholderData: previousData
ReferencesQuery ==
    IF Falsy(potdQuery.data) THEN Query(NoRefs, Null, FALSE)
    ELSE LET q == refsQueries[<<potdQuery.data, language>>] IN
         Query(IF q.data = NoRefs /\ q.error = Null THEN prevRefs ELSE q.data,
               q.error, q.fetching)
\* isLoading of a query result: fetching, no data and no error
QueryIsLoading(result, nodata) ==
    result.fetching /\ result.data = nodata /\ result.error = Null
IsReferencesLoading ==
    \/ QueryIsLoading(ReferencesQuery, NoRefs)
    \/ (ReferencesQuery.fetching /\ ReferencesQuery.data = NoRefs)

\* the render guards of PotdCard, ReferencesList and SolutionViewer
Components == {"PotdCard", "ReferencesList", "SolutionViewer"}
Guards(isLoading, errorMessage, empty) ==
    IF isLoading THEN "skeleton"
    ELSE IF ~Falsy(errorMessage) THEN "error"
    ELSE IF empty THEN "empty"
    ELSE "content"
\* the props Dashboard passes
PropIsLoading(c) ==
    IF c = "PotdCard" THEN QueryIsLoading(potdQuery, Null) ELSE IsReferencesLoading
PropErrorMessage(c) ==
    GetErrorMessage(IF c = "PotdCard" THEN potdQuery.error ELSE ReferencesQuery.error)
Rendered(c) ==
    Guards(PropIsLoading(c), PropErrorMessage(c),
           CASE c = "PotdCard" -> potdQuery.data = Null
             [] c = "ReferencesList" -> ReferencesQuery.data.items = 0
             [] OTHER -> ReferencesQuery.data.code = Null)
\* the query onRetry refetches
OnRetryAlwaysPotd(c) == "potd"
OnRetry(c) == IF c = "PotdCard" THEN "potd" ELSE "refs"

\* the references observer is given the key (slug, lang)
ObserveRefs(slug, lang, stale) ==
    LET q == refsQueries[<<slug, lang>>]
        fetch == ~q.fetching /\ (q.data = NoRefs \/ stale)
    IN
    /\ fetch => dashCalls < MaxDashCalls
    /\ refsQueries' =
          IF fetch THEN [refsQueries EXCEPT ![<<slug, lang>>] = StartFetch(q, NoRefs)]
          ELSE refsQueries
    /\ dashCalls' = IF fetch THEN dashCalls + 1 ELSE dashCalls
    /\ dashEvent' =
          IF fetch THEN DashEvent("getReferences", GetReferencesParams(slug, lang), "")
          ELSE NoDashEvent
    /\ prevRefs' = IF q.data # NoRefs THEN q.data ELSE prevRefs

\* LanguagePicker calls setLanguage
SetLanguage(lang, stale) ==
    /\ lang # language
    /\ language' = lang
    /\ IF Falsy(potdQuery.data)
       THEN /\ dashEvent' = NoDashEvent
            /\ UNCHANGED <<refsQueries, prevRefs, dashCalls>>
       ELSE ObserveRefs(potdQuery.data, lang, stale)
    /\ UNCHANGED potdQuery
    /\ UNCHANGED <<swVars, extVars, connVars, viewVars, apiVars, histVars, tokVars, htmlVars>>

\* getPOTD settles
PotdSettle(ok, slug) ==
    /\ potdQuery.fetching
    /\ IF ok
       THEN /\ potdQuery' = Query(slug, Null, FALSE)
            /\ IF slug # potdQuery.data
               THEN ObserveRefs(slug, language, FALSE)
               ELSE /\ dashEvent' = NoDashEvent
                    /\ UNCHANGED <<refsQueries, prevRefs, dashCalls>>
       ELSE /\ potdQuery' = Query(potdQuery.data, slug, FALSE)
            /\ dashEvent' = NoDashEvent
            /\ UNCHANGED <<refsQueries, prevRefs, dashCalls>>
    /\ UNCHANGED language
    /\ UNCHANGED <<swVars, extVars, connVars, viewVars, apiVars, histVars, tokVars, htmlVars>>

\* getReferences of the query of a key settles: a response, an error, or
\* an error followed by a retry
RefsSettle(key, outcome, response) ==
    LET q == refsQueries[key]
        current == ~Falsy(potdQuery.data) /\ key = <<potdQuery.data, language>>
    IN
    /\ q.fetching
    /\ CASE outcome = "ok" ->
             /\ refsQueries' = [refsQueries EXCEPT ![key] = Query(response, Null, FALSE)]
             /\ prevRefs' = IF current THEN response ELSE prevRefs
             /\ dashEvent' = NoDashEvent
             /\ UNCHANGED dashCalls
         [] outcome = "retry" ->
             /\ current
             /\ dashCalls < MaxDashCalls
             /\ dashCalls' = dashCalls + 1
             /\ dashEvent' =
                   DashEvent("getReferences", GetReferencesParams(key[1], key[2]), "")
             /\ UNCHANGED <<refsQueries, prevRefs>>
         [] OTHER ->
             /\ refsQueries' = [refsQueries EXCEPT ![key] = Query(q.data, outcome, FALSE)]
             /\ dashEvent' = NoDashEvent
             /\ UNCHANGED <<prevRefs, dashCalls>>
    /\ UNCHANGED <<language, potdQuery>>
    /\ UNCHANGED <<swVars, extVars, connVars, viewVars, apiVars, histVars, tokVars, htmlVars>>

\* a click on 'Try again' of a component: onRetry
TryAgain(c) ==
    /\ Rendered(c) = "error"
    /\ dashCalls < MaxDashCalls
    /\ dashCalls' = dashCalls + 1
    /\ IF OnRetry(c) = "potd"
       THEN /\ potdQuery' = StartFetch(potdQuery, Null)
            /\ dashEvent' = DashEvent("getPOTD", GetReferencesParams(Null, Null), c)
            /\ UNCHANGED refsQueries
       ELSE /\ ~Falsy(potdQuery.data)
            /\ refsQueries' =
                  [refsQueries EXCEPT ![<<potdQuery.data, language>>] = StartFetch(@, NoRefs)]
            /\ dashEvent' =
                  DashEvent("getReferences",
                            GetReferencesParams(potdQuery.data, language), c)
            /\ UNCHANGED potdQuery
    /\ UNCHANGED <<language, prevRefs>>
    /\ UNCHANGED <<swVars, extVars, connVars, viewVars, apiVars, histVars, tokVars, htmlVars>>

\* the window gets the focus again: the stale POTD query is refetched
PotdRefetchOnFocus ==
    /\ ~potdQuery.fetching
    /\ dashCalls < MaxDashCalls
    /\ dashCalls' = dashCalls + 1
    /\ potdQuery' = StartFetch(potdQuery, Null)
    /\ dashEvent' = DashEvent("getPOTD", GetReferencesParams(Null, Null), "")
    /\ UNCHANGED <<language, refsQueries, prevRefs>>
    /\ UNCHANGED <<swVars, extVars, connVars, viewVars, apiVars, histVars, tokVars, htmlVars>>

\* the props Dashboard passes to SolutionViewer: questionSlug
\* (referencesQuery.data?.slug ?? potd?.slug ?? null), and the code of
\* solution, from which displayCode is made
QuestionSlugProp == Coalesce(ReferencesQuery.data.slug, potdQuery.data)
SolutionCodeProp == ReferencesQuery.data.code

\* the payload of submitSolution
SubmitPayload(slug, lang, code) == [slug |-> slug, lang |-> lang, code |-> code]

\* handleSubmit of the SolutionViewer Dashboard renders, up to its call of
\* submitSolution: the two guards, and the payload made of the props of the
\* render whose callback was called
SubmitClick ==
    /\ ~Falsy(QuestionSlugProp)
    /\ ~Falsy(SolutionCodeProp)
    /\ dashEvent' =
          DashEvent("submitSolution",
                    SubmitPayload(QuestionSlugProp, language, SolutionCodeProp), "")
    /\ UNCHANGED <<language, potdQuery, refsQueries, prevRefs, dashCalls>>
    /\ UNCHANGED <<swVars, extVars, connVars, viewVars, apiVars, histVars, tokVars, htmlVars>>

DashNext ==
    \/ SubmitClick
    \/ \E lang \in DashLanguages, stale \in BOOLEAN : SetLanguage(lang, stale)
    \/ \E slug \in Slugs : PotdSettle(TRUE, slug)
    \/ \E error \in RequestErrors : PotdSettle(FALSE, error)
    \/ \E key \in RefKeys :
          \/ \E response \in RefsResponses(key) : RefsSettle(key, "ok", response)
          \/ \E outcome \in RequestErrors \cup {"retry"} : RefsSettle(key, outcome, NoRefs)
    \/ \E c \in Components : TryAgain(c)
    \/ PotdRefetchOnFocus

(***************************************************************************)
(* lib/api.ts: the base URL and the URL of a request.  A string is the     *)
(* sequence of its characters; the default base and the request paths are  *)
(* single items, none of them blank or a slash.                            *)
(***************************************************************************)
Chars == {" ", "/", "a"}
IsWhitespace(c) == c = " "

DEFAULT_API_BASE == <<"http://localhost:8000">>

\* import.meta.env.VITE_API_BASE: undefined, or a string
EnvUnset == [set |-> FALSE, text |-> <<>>]
EnvString(text) == [set |-> TRUE, text |-> text]
EnvValues == {EnvUnset} \cup {EnvString(t) : t \in SeqsUpTo(Chars, MaxEnvLen)}

\* String.prototype.trim
RECURSIVE TrimStart(_)
TrimStart(s) ==
    IF Len(s) > 0 /\ IsWhitespace(s[1]) THEN TrimStart(Tail(s)) ELSE s
RECURSIVE TrimEnd(_)
TrimEnd(s) ==
    IF Len(s) > 0 /\ IsWhitespace(s[Len(s)])
    THEN TrimEnd(SubSeq(s, 1, Len(s) - 1)) ELSE s
Trim(s) == TrimEnd(TrimStart(s))

\* env?.trim() || 'http://localhost:8000'
ApiBaseUrl(env) ==
    IF ~env.set THEN DEFAULT_API_BASE
    ELSE IF Trim(env.text) = <<>> THEN DEFAULT_API_BASE
    ELSE Trim(env.text)

\* s.replace(/\/$/, '')
RECURSIVE ReplaceTrailingSlashes(_)
ReplaceTrailingSlashes(s) ==
    IF Len(s) > 0 /\ s[Len(s)] = "/"
    THEN ReplaceTrailingSlashes(SubSeq(s, 1, Len(s) - 1)) ELSE s
ReplaceTrailingSlash(s) ==
    IF Len(s) > 0 /\ s[Len(s)] = "/" THEN SubSeq(s, 1, Len(s) - 1) ELSE s

\* the paths the exported functions pass to request
Paths ==
    {"/api/potd", "/api/references?", "/api/leetcode/session",
     "/api/leetcode/submit", "/api/leetcode/submissions?"}

\* `${API_BASE_URL.replace(/\/$/, '')}${path}`
RequestUrl(base, path) == ReplaceTrailingSlash(base) \o <<path>>

NoUrl == <<>>

\* how fetch settles: it rejects, or it resolves with a response that has
\* a status, a content-type header (the pieces of its value, <<>> when
\* absent) and a body that is JSON text, other text, or cannot be read
Fetched(rejected, status, contentType, body) ==
    [rejected |-> rejected, status |-> status, contentType |-> contentType,
     body |-> body]
NoFetch == Fetched(FALSE, 0, <<>>, "none")
FetchRejected == Fetched(TRUE, 0, <<>>, "none")
FetchResults ==
    {FetchRejected}
    \cup {Fetched(FALSE, status, contentType, body) :
            status \in {200, 299, 300, 404},
            contentType \in {<<>>, <<"text/html">>,
                             <<"application/json">>,
                             <<"application/json", "; charset=utf-8">>},
            body \in {"json", "text", "unreadable"}}

\* what request throws or returns
Outcome(kind, message, url, status, data) ==
    [kind |-> kind, message |-> message, url |-> url, status |-> status,
     data |-> data]
NotSettled == Outcome("pending", Null, <<>>, 0, Undefined)

ApiInitWith(env) ==
    /\ viteApiBase = env
    /\ apiBaseUrl = ApiBaseUrl(env)
    /\ apiUrl = NoUrl
    /\ apiFetch = NoFetch
    /\ apiOutcome = NotSettled
ApiIdle == ApiInitWith(EnvUnset)

\* request(path, init) up to fetch
Request(path) ==
    /\ apiUrl' = RequestUrl(apiBaseUrl, path)
    /\ apiFetch' = NoFetch
    /\ apiOutcome' = NotSettled
    /\ UNCHANGED <<viteApiBase, apiBaseUrl>>
    /\ UNCHANGED <<swVars, extVars, connVars, viewVars, dashVars, histVars, tokVars, htmlVars>>

ApiNext == \E path \in Paths : Request(path)

\* response.ok
ResponseOk(response) == response.status \in 200..299
\* contentType?.includes('application/json')
IsJson(contentType) ==
    \E k \in 1..Len(contentType) : contentType[k] = "application/json"
\* response.json().catch(() => null) and response.text(): the value, or
\* the rejection of the read
BodyRead(ok, value) == [ok |-> ok, value |-> value]
ResponseJson(response) ==
    BodyRead(TRUE, IF response.body = "json" THEN "<parsed JSON>" ELSE Null)
ResponseText(response) ==
    IF response.body = "unreadable" THEN BodyRead(FALSE, "body stream error")
    ELSE BodyRead(TRUE, IF response.body = "json" THEN "<JSON text>" ELSE "<text>")

\* request(path, init) from the settling of fetch on
RequestOutcome(url, fetch) ==
    IF fetch.rejected
    THEN Outcome("Error", "Network error while requesting", url, 0, Undefined)
    ELSE LET payload == IF IsJson(fetch.contentType) THEN ResponseJson(fetch)
                        ELSE ResponseText(fetch)
         IN IF ~payload.ok
            THEN Outcome("TypeError", payload.value, <<>>, 0, Undefined)
            ELSE IF ~ResponseOk(fetch)
            THEN Outcome("ApiError", "Request failed with status", url,
                         fetch.status, payload.value)
            ELSE Outcome("return", Null, <<>>, fetch.status, payload.value)

RequestSettles(fetch) ==
    /\ apiUrl # NoUrl
    /\ apiOutcome = NotSettled
    /\ apiFetch' = fetch
    /\ apiOutcome' = RequestOutcome(apiUrl, fetch)
    /\ UNCHANGED <<viteApiBase, apiBaseUrl, apiUrl>>
    /\ UNCHANGED <<swVars, extVars, connVars, viewVars, dashVars, histVars, tokVars,
                   htmlVars>>

RequestNext ==
    \/ \E path \in Paths : Request(path)
    \/ \E fetch \in FetchResults : RequestSettles(fetch)
InitApi ==
    /\ SwInit /\ ExtInit /\ ConnIdle /\ ViewIdle /\ DashInit /\ HistIdle /\ TokIdle /\ HtmlIdle
    /\ \E env \in EnvValues : ApiInitWith(env)
SpecApi == InitApi /\ [][ApiNext]_vars
InitRequest ==
    /\ SwInit /\ ExtInit /\ ConnIdle /\ ViewIdle /\ DashInit /\ HistIdle /\ TokIdle
    /\ HtmlIdle /\ ApiIdle
SpecRequest == InitRequest /\ [][RequestNext]_vars

InitDash == SwInit /\ ExtInit /\ ConnIdle /\ ViewIdle /\ ApiIdle /\ DashInit /\ HistIdle /\ TokIdle /\ HtmlIdle
SpecDash == InitDash /\ [][DashNext]_vars

InitHistory ==
    /\ SwInit /\ ExtInit /\ ConnIdle /\ ViewIdle /\ ApiIdle /\ DashInit
    /\ HistInit /\ TokIdle /\ HtmlIdle
SpecHistory == InitHistory /\ [][HistoryNext]_vars

InitDecode ==
    /\ SwInit /\ ExtInit /\ ConnIdle /\ ViewIdle /\ ApiIdle /\ DashInit
    /\ HistIdle /\ TokIdle
    /\ \E snippet \in Snippets : HtmlInitWith(snippet)
SpecDecode == InitDecode /\ [][HtmlNext]_vars

(***************************************************************************)
(* extension/serviceWorker.js                                              *)
(***************************************************************************)
RuntimeMessageTypes == {FETCH_COOKIES, "OTHER", Undefined}

\* the onMessage listener: anything but LEETCODE_FETCH_COOKIES returns at
\* once; otherwise chrome.cookies.getAll is started
SwOnMessage(type) ==
    /\ swPc # "reading"
    /\ swMessage' = type
    /\ IF type # FETCH_COOKIES
       THEN UNCHANGED <<swPc, swStore, swLastError, swResponse>>
       ELSE \* a new exchange: nothing read or sent yet
            /\ swPc' = "reading"
            /\ swResponse' = NoPayload
            /\ swStore' = <<>>
            /\ swLastError' = NoError
    /\ UNCHANGED <<extVars, connVars, viewVars, apiVars, dashVars, histVars, tokVars, htmlVars>>

\* the getAll callback: the browser hands over the jar (or sets lastError)
SwCookiesCallback(store, lastError) ==
    /\ swPc = "reading"
    /\ swPc' = "responded"
    /\ swStore' = store
    /\ swLastError' = lastError
    /\ swResponse' = CookiesCallback(store, lastError)
    /\ UNCHANGED swMessage
    /\ UNCHANGED <<extVars, connVars, viewVars, apiVars, dashVars, histVars, tokVars, htmlVars>>

SwNext ==
    \/ \E type \in RuntimeMessageTypes : SwOnMessage(type)
    \/ \E store \in CookieStores, e \in RuntimeErrors \cup {NoError} :
          SwCookiesCallback(store, e)

InitSW == SwInit /\ ExtInit /\ ConnIdle /\ ViewIdle /\ ApiIdle /\ DashInit /\ HistIdle /\ TokIdle /\ HtmlIdle
SpecSW == InitSW /\ [][SwNext]_vars

(***************************************************************************)
(* extension/contentScript.js, with the service worker behind it.          *)
(* reqs[i] follows the i-th accepted REQUEST message:                      *)
(*   event    the window message event that was accepted                   *)
(*   message  the type of the runtime message sent for it                  *)
(*   cs       "sent" (chrome.runtime.sendMessage called) | "done"          *)
(*   sw       "queued" | "reading" | "responded"                           *)
(*   response what the service worker passed to sendResponse               *)
(*   cbError, cbHasResponse  what the sendMessage callback was called with  *)
(*   posts    the RESPONSE payloads posted back to the page                *)
(***************************************************************************)
WindowEvents ==
    [source : {"window", "frame"}, hasData : BOOLEAN,
     type : {REQUEST_TYPE, RESPONSE_TYPE, "OTHER"}]

NewRequest(ev) ==
    [event |-> ev, message |-> FETCH_COOKIES,
     cs |-> "sent", sw |-> "queued", response |-> NoPayload,
     cbError |-> NoError, cbHasResponse |-> FALSE, posts |-> <<>>]

\* the guard of the window 'message' listener
CsAcceptsAnySource(ev) == ev.hasData /\ ev.type = REQUEST_TYPE
CsAccepts(ev) == ~(ev.source # "window" \/ ~ev.hasData \/ ev.type # REQUEST_TYPE)

\* the window 'message' listener: a REQUEST of the page's own window is
\* forwarded with chrome.runtime.sendMessage, anything else is ignored
CsOnWindowMessage(ev) ==
    /\ Len(reqs) < MaxEvents
    /\ IF CsAccepts(ev)
       THEN reqs' = Append(reqs, NewRequest(ev))
       ELSE UNCHANGED reqs
    /\ UNCHANGED <<swVars, connVars, viewVars, apiVars, dashVars, histVars, tokVars, htmlVars>>

\* serviceWorker.js listener for the message the content script sent
RelaySwOnMessage(i) ==
    /\ reqs[i].sw = "queued"
    /\ reqs' = [reqs EXCEPT ![i].sw = "reading"]
    /\ UNCHANGED <<swVars, connVars, viewVars, apiVars, dashVars, histVars, tokVars, htmlVars>>

\* every response the service worker can produce
SwResponses ==
    {CookiesCallback(store, e) :
        store \in CookieStores, e \in RuntimeErrors \cup {NoError}}

\* serviceWorker.js getAll callback for request i, answering with
\* CookiesCallback of the jar at that moment
RelaySwCookiesCallback(i, response) ==
    /\ reqs[i].sw = "reading"
    /\ reqs' = [reqs EXCEPT ![i].sw = "responded", ![i].response = response]
    /\ UNCHANGED <<swVars, connVars, viewVars, apiVars, dashVars, histVars, tokVars, htmlVars>>

\* the payload the sendMessage callback posts: lastError first, then
\* response ?? { ok: false, error: 'No response from extension.' }
NO_RESPONSE == "No response from extension."
RelayPayloadIgnoresLastError(lastError, hasResponse, response) ==
    IF hasResponse THEN response
    ELSE Payload(FALSE, NO_RESPONSE, Undefined, Undefined)
RelayPayload(lastError, hasResponse, response) ==
    IF lastError # NoError
    THEN Payload(FALSE, lastError, Undefined, Undefined)
    ELSE IF hasResponse THEN response
         ELSE Payload(FALSE, NO_RESPONSE, Undefined, Undefined)

PortErrors == {"Could not establish connection. Receiving end does not exist."}

\* the sendMessage callback: called once, with the service worker's
\* response, or with lastError set (no receiving end, port closed), or
\* with neither
CsSendMessageCallback(i, lastError, hasResponse) ==
    /\ reqs[i].cs = "sent"
    /\ hasResponse => reqs[i].sw = "responded" /\ lastError = NoError
    /\ ~hasResponse => reqs[i].sw # "responded"
    /\ reqs' = [reqs EXCEPT
                  ![i].cs = "done",
                  ![i].cbError = lastError,
                  ![i].cbHasResponse = hasResponse,
                  ![i].posts = Append(@, RelayPayload(lastError, hasResponse,
                                                      reqs[i].response))]
    /\ UNCHANGED <<swVars, connVars, viewVars, apiVars, dashVars, histVars, tokVars, htmlVars>>

ExtNext ==
    \/ \E ev \in WindowEvents : CsOnWindowMessage(ev)
    \/ \E i \in 1..Len(reqs) : RelaySwOnMessage(i)
    \/ \E i \in 1..Len(reqs), response \in SwResponses :
          RelaySwCookiesCallback(i, response)
    \/ \E i \in 1..Len(reqs), e \in PortErrors \cup {NoError}, h \in BOOLEAN :
          CsSendMessageCallback(i, e, h)

InitExt == SwInit /\ ExtInit /\ ConnIdle /\ ViewIdle /\ ApiIdle /\ DashInit /\ HistIdle /\ TokIdle /\ HtmlIdle
SpecExt == InitExt /\ [][ExtNext]_vars

\* the two listeners of the extension on their own: every window event is
\* dispatched to the content script and every runtime message to the
\* service worker
BridgeNext ==
    \/ \E ev \in WindowEvents : CsOnWindowMessage(ev)
    \/ \E type \in RuntimeMessageTypes : SwOnMessage(type)
    \/ \E store \in CookieStores, e \in RuntimeErrors \cup {NoError} :
          SwCookiesCallback(store, e)

InitBridge == SwInit /\ ExtInit /\ ConnIdle /\ ViewIdle /\ ApiIdle /\ DashInit /\ HistIdle /\ TokIdle /\ HtmlIdle
SpecBridge == InitBridge /\ [][BridgeNext]_vars

\* chrome.runtime.sendMessage calls its callback for every message sent
FairSpecExt ==
    /\ SpecExt
    /\ \A i \in 1..MaxEvents :
          WF_vars(\E e \in PortErrors \cup {NoError}, h \in BOOLEAN :
                     i <= Len(reqs) /\ CsSendMessageCallback(i, e, h))

(***************************************************************************)
(* LeetCodeSessionConnector (ReferencesList.tsx lines 192 ff.) and the     *)
(* backend's /api/leetcode/session behind lib/api.ts.                      *)
(* A task waits at pc "get" | "post" | "delete" until the backend has      *)
(* handled its request ("getOk", "getFail", ...), then resumes.            *)
(***************************************************************************)
\* every payload the content script can post to the page
PagePayloads ==
    {RelayPayload(e, FALSE, NoPayload) : e \in PortErrors \cup {NoError}}
    \cup {RelayPayload(NoError, TRUE, r) : r \in SwResponses}


MSG_NOT_LOGGED_IN ==
    "Extension could not fetch cookies. Make sure you are logged in on leetcode.com."
MSG_INCOMPLETE ==
    "Extension did not return both LEETCODE_SESSION and csrftoken cookies."
MSG_NETWORK == "Network error while requesting /api/leetcode/session"

\* the guard of the connector's 'message' listener
ConnListens(ev) == ~(ev.source # "window" \/ ~ev.hasData \/ ev.type # RESPONSE_TYPE)

\* the two payload checks before storeLeetCodeSession
ConnAcceptsOkOnly(payload) == payload.ok
ConnAccepts(payload) ==
    /\ payload.ok
    /\ ~(Falsy(payload.leetcodeSession) \/ Falsy(payload.csrfToken))

\* the 'message' handler up to its first await
ConnHandler(ev, payload) ==
    /\ IF ~ConnListens(ev)
       THEN connEvent' = NoEvent
            /\ UNCHANGED <<connStatus, connMessage, connected, connTokens,
                           connTasks, backendSession>>
       ELSE IF ConnAccepts(payload)
       THEN /\ Len(connTasks) < MaxConnTasks
            /\ connTasks' = Append(connTasks,
                  ConnTask("handler", "post",
                           Tokens(payload.leetcodeSession, payload.csrfToken), NoData))
            /\ connEvent' = ConnEvent("handled", payload, TRUE,
                  Tokens(payload.leetcodeSession, payload.csrfToken), FALSE)
            /\ UNCHANGED <<connStatus, connMessage, connected, connTokens,
                           backendSession>>
       ELSE /\ connStatus' = "error"
            /\ connMessage' = IF ~payload.ok
                              THEN Coalesce(payload.error, MSG_NOT_LOGGED_IN)
                              ELSE MSG_INCOMPLETE
            /\ connEvent' = ConnEvent("handled", payload, FALSE, NoTokens, FALSE)
            /\ UNCHANGED <<connected, connTokens, connTasks, backendSession>>

\* a window message dispatched to the connector's listener
ConnOnWindowMessage(ev, payload) ==
    /\ ConnHandler(ev, payload)
    /\ UNCHANGED <<swVars, extVars, viewVars, apiVars, dashVars, histVars, tokVars, htmlVars>>

\* handleFetch (the button is disabled while status is 'fetching')
ConnHandleFetch ==
    /\ connStatus # "fetching"
    /\ connStatus' = "fetching"
    /\ connMessage' = "Requesting cookies from extension..."
    /\ connEvent' = NoEvent
    /\ UNCHANGED <<connected, connTokens, connTasks, backendSession>>
    /\ UNCHANGED <<swVars, extVars, viewVars, apiVars, dashVars, histVars, tokVars, htmlVars>>

\* handleDisconnect up to its first await (the button is disabled when
\* !connected && status !== 'success')
ConnHandleDisconnect ==
    /\ ~(~connected /\ connStatus # "success")
    /\ Len(connTasks) < MaxConnTasks
    /\ connTasks' = Append(connTasks, ConnTask("disconnect", "delete", NoTokens, NoData))
    /\ connEvent' = NoEvent
    /\ UNCHANGED <<connStatus, connMessage, connected, connTokens, backendSession>>
    /\ UNCHANGED <<swVars, extVars, viewVars, apiVars, dashVars, histVars, tokVars, htmlVars>>

\* the backend handles the request task i waits for, or the request fails
BackendSession(i, ok) ==
    LET t == connTasks[i] IN
    /\ t.pc \in {"get", "post", "delete"}
    /\ IF ~ok
       THEN /\ connTasks' = [connTasks EXCEPT ![i].pc = t.pc \o "Fail"]
            /\ UNCHANGED backendSession
       ELSE CASE t.pc = "get" ->
                 /\ connTasks' = [connTasks EXCEPT
                       ![i].pc = "getOk",
                       ![i].data =
                          [connected |-> backendSession # NoTokens,
                           leetcode_session |-> backendSession.leetcodeSession,
                           csrf_token |-> backendSession.csrfToken]]
                 /\ UNCHANGED backendSession
              [] t.pc = "post" ->
                 /\ connTasks' = [connTasks EXCEPT ![i].pc = "postOk"]
                 /\ backendSession' = t.tokens
              [] t.pc = "delete" ->
                 /\ connTasks' = [connTasks EXCEPT ![i].pc = "deleteOk"]
                 /\ backendSession' = NoTokens
    /\ connEvent' = NoEvent
    /\ UNCHANGED <<connStatus, connMessage, connected, connTokens>>
    /\ UNCHANGED <<swVars, extVars, viewVars, apiVars, dashVars, histVars, tokVars, htmlVars>>

\* refreshStatus once its GET has settled: connected, status and tokens
RefreshConnected(data, ok) == IF ok THEN data.connected ELSE connected
RefreshStatus(data, ok) ==
    IF ok THEN (IF data.connected THEN "success" ELSE "disconnected") ELSE "error"
RefreshTokens(data, ok) ==
    IF ok THEN Tokens(data.leetcode_session, data.csrf_token) ELSE NoTokens
RefreshMessage(ok) == IF ok THEN connMessage ELSE MSG_NETWORK

\* the rest of the 'message' handler
ConnHandlerResume(i) ==
    LET t == connTasks[i] IN
    /\ t.kind = "handler"
    /\ t.pc \in {"postOk", "postFail", "getOk", "getFail"}
    /\ CASE t.pc = "postOk" ->
             \* setMessage, then await refreshStatus()
             /\ connMessage' = "LeetCode session connected successfully."
             /\ connTasks' = [connTasks EXCEPT ![i].pc = "get"]
             /\ UNCHANGED <<connStatus, connected, connTokens>>
         [] t.pc = "postFail" ->
             /\ connStatus' = "error"
             /\ connMessage' = MSG_NETWORK
             /\ connTasks' = RemoveAt(connTasks, i)
             /\ UNCHANGED <<connected, connTokens>>
         [] OTHER ->
             \* refreshStatus finishes, then setStatus('success')
             /\ connected' = RefreshConnected(t.data, t.pc = "getOk")
             /\ connTokens' = RefreshTokens(t.data, t.pc = "getOk")
             /\ connMessage' = RefreshMessage(t.pc = "getOk")
             /\ connStatus' = "success"
             /\ connTasks' = RemoveAt(connTasks, i)
    /\ connEvent' = NoEvent
    /\ UNCHANGED backendSession
    /\ UNCHANGED <<swVars, extVars, viewVars, apiVars, dashVars, histVars, tokVars, htmlVars>>

\* the rest of handleDisconnect
ConnDisconnectResume(i) ==
    LET t == connTasks[i] IN
    /\ t.kind = "disconnect"
    /\ t.pc \in {"deleteOk", "deleteFail", "getOk", "getFail"}
    /\ CASE t.pc = "deleteOk" ->
             \* await refreshStatus()
             /\ connTasks' = [connTasks EXCEPT ![i].pc = "get"]
             /\ connEvent' = NoEvent
             /\ UNCHANGED <<connStatus, connMessage, connected, connTokens>>
         [] t.pc = "deleteFail" ->
             /\ connStatus' = "error"
             /\ connMessage' = MSG_NETWORK
             /\ connTasks' = RemoveAt(connTasks, i)
             /\ connEvent' = ConnEvent("disconnected", NoPayload, FALSE, NoTokens, FALSE)
             /\ UNCHANGED <<connected, connTokens>>
         [] OTHER ->
             \* refreshStatus finishes, then setStatus('disconnected')
             /\ connected' = RefreshConnected(t.data, t.pc = "getOk")
             /\ connTokens' = RefreshTokens(t.data, t.pc = "getOk")
             /\ connStatus' = "disconnected"
             /\ connMessage' = "LeetCode session removed."
             /\ connTasks' = RemoveAt(connTasks, i)
             /\ connEvent' = ConnEvent("disconnected", NoPayload, FALSE, NoTokens, TRUE)
    /\ UNCHANGED backendSession
    /\ UNCHANGED <<swVars, extVars, viewVars, apiVars, dashVars, histVars, tokVars, htmlVars>>

\* the rest of the refreshStatus the mount effect started
ConnMountResume(i) ==
    LET t == connTasks[i] IN
    /\ t.kind = "mount"
    /\ t.pc \in {"getOk", "getFail"}
    /\ connected' = RefreshConnected(t.data, t.pc = "getOk")
    /\ connTokens' = RefreshTokens(t.data, t.pc = "getOk")
    /\ connStatus' = RefreshStatus(t.data, t.pc = "getOk")
    /\ connMessage' = RefreshMessage(t.pc = "getOk")
    /\ connTasks' = RemoveAt(connTasks, i)
    /\ connEvent' = NoEvent
    /\ UNCHANGED backendSession
    /\ UNCHANGED <<swVars, extVars, viewVars, apiVars, dashVars, histVars, tokVars, htmlVars>>

ConnNext ==
    \/ \E ev \in WindowEvents :
          \E payload \in (IF ConnListens(ev) THEN PagePayloads ELSE {NoPayload}) :
             ConnOnWindowMessage(ev, payload)
    \/ ConnHandleFetch
    \/ ConnHandleDisconnect
    \/ \E i \in 1..Len(connTasks), ok \in BOOLEAN : BackendSession(i, ok)
    \/ \E i \in 1..Len(connTasks) : ConnHandlerResume(i)
    \/ \E i \in 1..Len(connTasks) : ConnDisconnectResume(i)
    \/ \E i \in 1..Len(connTasks) : ConnMountResume(i)

InitConn == SwInit /\ ExtInit /\ ConnInit /\ ViewIdle /\ ApiIdle /\ DashInit /\ HistIdle /\ TokIdle /\ HtmlIdle
SpecConn == InitConn /\ [][ConnNext]_vars

\* backend requests settle and the awaiting functions resume; whether a
\* RESPONSE message ever arrives is up to the extension
ConnSettle ==
    \E i \in 1..Len(connTasks) :
        \/ \E ok \in BOOLEAN : BackendSession(i, ok)
        \/ ConnHandlerResume(i)
        \/ ConnDisconnectResume(i)
        \/ ConnMountResume(i)
FairSpecConn == SpecConn /\ WF_vars(ConnSettle)

(***************************************************************************)
(* components/SolutionViewer.tsx.  State and props change in steps of     *)
(* their own and mark the component dirty; ViewRender commits the next    *)
(* render and runs its effects, which see the values of that render.      *)
(* handleSubmit is reached through the submit button of PotdCard, which   *)
(* is disabled by the isSubmitDisabled last reported.  The session and    *)
(* history panels of the component are display state outside this model;  *)
(* a call of loadRecentSubmissions is recorded in viewEvent.  displayCode *)
(* is the code the viewer was mounted with.                               *)
(***************************************************************************)
stateVars == <<submissionSteps, submissionResult, submissionError>>

MSG_NO_SLUG == "Question slug is not available, cannot submit to LeetCode."
MSG_NO_CODE == "No code snippet is available to submit."
MSG_UNABLE == "Unable to communicate with the extension."
MSG_TIMEOUT == "Extension did not respond in time. Ensure it is installed and active."
MSG_SUBMIT_FAILED == "LeetCode submission failed."
MSG_SUBMIT_THROWN == "Failed to submit solution."

IsSubmitDisabled(code, slug, submitting) ==
    Falsy(code) \/ Falsy(slug) \/ submitting

\* the load effect, the onSubmitStateChange effect and the persistence
\* effect of the render being committed, in the order they are declared
ViewRender ==
    /\ dirty
    /\ LET slug == questionSlug
           load == renderedSlug # slug
           text == IF slug \in Slugs THEN localStorage[GetStorageKey(slug)]
                   ELSE Absent
       IN
       /\ renderedSlug' = slug
       /\ renderedCode' = displayCode
       /\ buttonDisabled' = IsSubmitDisabled(displayCode, slug, isSubmitting)
       /\ IF slug \in Slugs
          THEN /\ localStorage' =
                    [localStorage EXCEPT ![GetStorageKey(slug)] =
                        Persisted(submissionSteps, submissionResult, submissionError)]
               /\ lastPersisted' =
                    [lastPersisted EXCEPT ![slug] =
                        IF SnapshotEmpty(submissionSteps, submissionResult, submissionError)
                        THEN NoValues
                        ELSE Values(submissionSteps, submissionResult, submissionError)]
          ELSE UNCHANGED <<localStorage, lastPersisted>>
       /\ IF load
          THEN /\ submissionSteps' = LoadedSteps(text)
               /\ submissionResult' = LoadedResult(text)
               /\ submissionError' = LoadedError(text)
               /\ dirty' = TRUE
               /\ viewEvent' =
                    ViewEvent(IF text # Absent /\ ~JsonParses(text)
                              THEN "parseFailed" ELSE "effects", 0, slug)
          ELSE /\ UNCHANGED stateVars
               /\ dirty' = FALSE
               /\ viewEvent' = ViewEvent("effects", 0, NoHistory)
    /\ UNCHANGED <<questionSlug, displayCode, isSubmitting, runs, nextRun>>
    /\ UNCHANGED <<swVars, extVars, connVars, apiVars, dashVars, histVars, tokVars, htmlVars>>

\* Dashboard renders the viewer for another problem
ViewSlugChange(slug) ==
    /\ slug # questionSlug
    /\ questionSlug' = slug
    /\ dirty' = TRUE
    /\ viewEvent' = NoViewEvent
    /\ UNCHANGED <<displayCode, isSubmitting, stateVars, renderedSlug,
                   renderedCode, buttonDisabled, localStorage, runs, nextRun,
                   lastPersisted>>
    /\ UNCHANGED <<swVars, extVars, connVars, apiVars, dashVars, histVars, tokVars, htmlVars>>

\* the viewer is unmounted and mounted again: new state, and the runs of
\* the old instance go on without it
ViewRemount ==
    /\ renderedSlug # Unmounted
    /\ isSubmitting' = FALSE
    /\ submissionSteps' = <<>>
    /\ submissionResult' = NoResult
    /\ submissionError' = NoErr
    /\ renderedSlug' = Unmounted
    /\ renderedCode' = Null
    /\ dirty' = TRUE
    /\ buttonDisabled' = TRUE
    /\ runs' = [i \in 1..Len(runs) |-> [runs[i] EXCEPT !.attached = FALSE]]
    /\ viewEvent' = NoViewEvent
    /\ UNCHANGED <<questionSlug, displayCode, localStorage, nextRun, lastPersisted>>
    /\ UNCHANGED <<swVars, extVars, connVars, apiVars, dashVars, histVars, tokVars, htmlVars>>

\* where a handleSubmit run goes after the step at pc settled
HandleSubmitNextNoReturn(pc, ok) ==
    CASE pc = "tokens" -> IF ok THEN "store" ELSE "end"
      [] pc = "store" -> "submit"
      [] OTHER -> "end"
HandleSubmitNext(pc, ok) ==
    CASE pc = "tokens" -> IF ok THEN "store" ELSE "end"
      [] pc = "store" -> IF ok THEN "submit" ELSE "end"
      [] OTHER -> "end"

\* handleSubmit up to its first await, called as the callback of the last
\* committed render
HandleSubmitCalled(maxRuns) ==
    /\ nextRun <= maxRuns
    /\ LET slug == renderedSlug
           code == renderedCode
       IN
       IF Falsy(slug) \/ Falsy(code)
       THEN /\ submissionSteps' = <<>>
            /\ submissionResult' = NoResult
            /\ submissionError' =
                  Err(IF Falsy(slug) THEN MSG_NO_SLUG ELSE MSG_NO_CODE, nextRun, slug)
            /\ viewEvent' = ViewEvent("refused", nextRun, NoHistory)
            /\ UNCHANGED <<isSubmitting, runs, buttonDisabled>>
       ELSE /\ isSubmitting' = TRUE
            /\ submissionError' = NoErr
            /\ submissionResult' = NoResult
            /\ submissionSteps' = <<Step("start", nextRun, slug)>>
            /\ runs' = Append(runs, Run(nextRun, slug, code))
            /\ buttonDisabled' = TRUE
            /\ viewEvent' = ViewEvent("started", nextRun, NoHistory)
    /\ nextRun' = nextRun + 1
    /\ dirty' = TRUE
    /\ UNCHANGED <<questionSlug, displayCode, renderedSlug, renderedCode,
                   localStorage, lastPersisted>>
    /\ UNCHANGED <<swVars, extVars, connVars, apiVars, dashVars, histVars, tokVars, htmlVars>>

\* a click on the submit button, which calls handleSubmit unless disabled
HandleSubmit ==
    /\ ~buttonDisabled
    /\ HandleSubmitCalled(MaxRuns)

\* a call of submit of the imperative handle ({ submit: handleSubmit })
MaxHandleRuns == 2
Submit == HandleSubmitCalled(MaxHandleRuns)

\* the catch of the first try block, then return
HandleSubmitSessionFailed(i, message) ==
    LET r == runs[i] IN
    /\ IF r.attached
       THEN /\ submissionSteps' = <<>>
            /\ submissionResult' = NoResult
            /\ submissionError' = Err(message, r.id, r.slug)
            /\ isSubmitting' = FALSE
            /\ dirty' = TRUE
       ELSE UNCHANGED <<stateVars, isSubmitting, dirty>>
    /\ runs' = RemoveAt(runs, i)
    /\ viewEvent' = RunEvent(IF r.attached THEN "ended" ELSE "endedUnmounted",
                              r.id, NoHistory, TRUE)

\* submitSolution is called
HandleSubmitCallsSubmit(i, r) ==
    /\ runs' = [runs EXCEPT ![i] = [r EXCEPT !.pc = "submit", !.submitted = TRUE]]
    /\ viewEvent' = NoViewEvent
    /\ UNCHANGED <<stateVars, isSubmitting, dirty>>

\* how requestTokensFromExtension settles
\* (a RESPONSE with one payload for each branch of the handler, or the
\* timer)
TokenPayloads ==
    {p \in PagePayloads : p.error = Undefined}
TokenOutcomes ==
    [kind : {"response"}, payload : TokenPayloads]
    \cup [kind : {"timeout"}, payload : {NoPayload}]
Settled(ok, tokens, error) == [ok |-> ok, tokens |-> tokens, error |-> error]
RequestTokensFromExtension(outcome) ==
    LET payload == outcome.payload IN
    CASE outcome.kind = "postMessage threw" -> Settled(FALSE, NoTokens, MSG_UNABLE)
      [] outcome.kind = "timeout" -> Settled(FALSE, NoTokens, MSG_TIMEOUT)
      [] OTHER ->
         IF ~payload.ok
         THEN Settled(FALSE, NoTokens, Coalesce(payload.error, MSG_NOT_LOGGED_IN))
         ELSE IF Falsy(payload.leetcodeSession) \/ Falsy(payload.csrfToken)
         THEN Settled(FALSE, NoTokens, MSG_INCOMPLETE)
         ELSE Settled(TRUE, Tokens(payload.leetcodeSession, payload.csrfToken), Null)

\* the promise of requestTokensFromExtension settles and handleSubmit
\* resumes: to the call of storeLeetCodeSession, or to its catch
TokensSettle(i, outcome) ==
    LET r == runs[i]
        settled == RequestTokensFromExtension(outcome)
    IN
    /\ r.pc = "tokens"
    /\ IF HandleSubmitNext("tokens", settled.ok) = "store"
       THEN /\ runs' = [runs EXCEPT ![i] =
                          [r EXCEPT !.pc = "store", !.tokens = settled.tokens,
                                    !.resolved = settled.ok]]
            /\ viewEvent' = ViewEvent("resolved", r.id, NoHistory)
            /\ UNCHANGED <<stateVars, isSubmitting, dirty>>
       ELSE HandleSubmitSessionFailed(i, settled.error)
    /\ UNCHANGED <<questionSlug, displayCode, renderedSlug, renderedCode,
                   buttonDisabled, localStorage, nextRun, lastPersisted>>

HandleSubmitTokens(i, outcome) ==
    /\ TokensSettle(i, outcome)
    /\ UNCHANGED <<swVars, extVars, connVars, apiVars, dashVars, histVars, tokVars, htmlVars>>

\* the backend handles POST /api/leetcode/session of run i, or it fails
BackendStore(i, ok) ==
    LET r == runs[i] IN
    /\ r.pc = "store"
    /\ runs' = [runs EXCEPT ![i].pc = IF ok THEN "storeOk" ELSE "storeFail"]
    /\ backendSession' = IF ok THEN r.tokens ELSE backendSession
    /\ viewEvent' = NoViewEvent
    /\ UNCHANGED <<questionSlug, displayCode, isSubmitting, stateVars,
                   renderedSlug, renderedCode, dirty, buttonDisabled,
                   localStorage, nextRun, lastPersisted>>
    /\ UNCHANGED <<swVars, extVars, connStatus, connMessage, connected,
                   connTokens, connTasks, connEvent, apiVars, dashVars,
                   histVars, tokVars, htmlVars>>

\* handleSubmit resumes after storeLeetCodeSession
HandleSubmitStored(i) ==
    LET r == runs[i]
        ok == r.pc = "storeOk"
    IN
    /\ r.pc \in {"storeOk", "storeFail"}
    /\ IF HandleSubmitNext("store", ok) = "submit"
       THEN HandleSubmitCallsSubmit(i, [r EXCEPT !.stored = ok])
       ELSE HandleSubmitSessionFailed(i, MSG_NETWORK)
    /\ UNCHANGED <<questionSlug, displayCode, renderedSlug, renderedCode,
                   buttonDisabled, localStorage, nextRun, lastPersisted>>
    /\ UNCHANGED <<swVars, extVars, connVars, apiVars, dashVars, histVars, tokVars, htmlVars>>

\* what POST /api/leetcode/submit can answer for run id of slug
SubmitResponse(ok, steps, result, error) ==
    [ok |-> ok, steps |-> steps, result |-> result, error |-> error]
SubmitResponses(id, slug) ==
    {SubmitResponse(TRUE, <<Step("submit", id, slug)>>, Result(id, slug), Undefined),
     SubmitResponse(TRUE, <<>>, NoResult, ""),
     SubmitResponse(TRUE, <<Step("submit", id, slug)>>, NoResult, "Wrong Answer"),
     SubmitResponse(FALSE, <<>>, NoResult, Undefined),
     SubmitResponse(FALSE, <<>>, NoResult, "")}
NoResponse == SubmitResponse(FALSE, <<>>, NoResult, Undefined)

\* response.error ?? 'LeetCode submission failed.'
SubmitFailedErrorNoDefault(response) == response.error
SubmitFailedError(response) == Coalesce(response.error, MSG_SUBMIT_FAILED)

\* the slug loadRecentSubmissions is called for in the finally block: the
\* one of the render handleSubmit was created in
FinallyHistoryCurrentSlug(r) == questionSlug
FinallyHistory(r) == r.slug

\* handleSubmit resumes after submitSolution: thrown, or the response
HandleSubmitSubmitted(i, thrown, response) ==
    LET r == runs[i] IN
    /\ r.pc = "submit"
    /\ IF ~r.attached
       THEN UNCHANGED <<stateVars, isSubmitting, dirty>>
       ELSE /\ IF thrown
               THEN /\ submissionError' = Err(MSG_SUBMIT_THROWN, r.id, r.slug)
                    /\ UNCHANGED <<submissionSteps, submissionResult>>
               ELSE /\ submissionSteps' =
                          IF Len(response.steps) > 0 THEN response.steps
                          ELSE submissionSteps
                    /\ submissionResult' =
                          IF response.result # NoResult THEN response.result
                          ELSE submissionResult
                    /\ submissionError' =
                          IF ~response.ok
                          THEN Err(SubmitFailedError(response), r.id, r.slug)
                          ELSE IF ~Falsy(response.error)
                          THEN Err(response.error, r.id, r.slug)
                          ELSE submissionError
            /\ isSubmitting' = FALSE
            /\ dirty' = TRUE
    /\ runs' = RemoveAt(runs, i)
    /\ viewEvent' = RunEvent(IF r.attached THEN "ended" ELSE "endedUnmounted",
                              r.id, FinallyHistory(r), thrown \/ ~response.ok)
    /\ UNCHANGED <<questionSlug, displayCode, renderedSlug, renderedCode,
                   buttonDisabled, localStorage, nextRun, lastPersisted>>
    /\ UNCHANGED <<swVars, extVars, connVars, apiVars, dashVars, histVars, tokVars, htmlVars>>

ViewNext ==
    \/ ViewRender
    \/ \E slug \in Slugs : ViewSlugChange(slug)
    \/ ViewRemount
    \/ HandleSubmit
    \/ \E i \in 1..Len(runs) :
        \/ \E outcome \in TokenOutcomes : HandleSubmitTokens(i, outcome)
        \/ \E ok \in BOOLEAN : BackendStore(i, ok)
        \/ HandleSubmitStored(i)
        \/ HandleSubmitSubmitted(i, TRUE, NoResponse)
        \/ \E response \in SubmitResponses(runs[i].id, runs[i].slug) :
              HandleSubmitSubmitted(i, FALSE, response)

InitViewer == SwInit /\ ExtInit /\ ConnIdle /\ ViewInit /\ ApiIdle /\ DashInit /\ HistIdle /\ TokIdle /\ HtmlIdle
SpecViewer == InitViewer /\ [][ViewNext]_vars

\* a step of a handleSubmit run in flight: the extension answers or the
\* 7 second timer fires, a backend request settles, the run resumes
RunStep ==
    \E i \in 1..Len(runs) :
        \/ \E outcome \in TokenOutcomes : HandleSubmitTokens(i, outcome)
        \/ \E ok \in BOOLEAN : BackendStore(i, ok)
        \/ HandleSubmitStored(i)
        \/ HandleSubmitSubmitted(i, TRUE, NoResponse)
        \/ \E response \in SubmitResponses(runs[i].id, runs[i].slug) :
              HandleSubmitSubmitted(i, FALSE, response)
\* the viewer mounted with code to submit and nothing stored, and staying
\* mounted (Dashboard renders it unconditionally); backend requests
\* settle, timers fire and React commits pending renders
InitSubmit ==
    /\ SwInit /\ ExtInit /\ ConnIdle /\ ApiIdle /\ DashInit /\ HistIdle /\ TokIdle /\ HtmlIdle
    /\ ViewInitWith(Null, "code", [x \in Slugs |-> Absent])
SubmitNext ==
    \/ ViewRender
    \/ \E slug \in Slugs : ViewSlugChange(slug)
    \/ HandleSubmit
    \/ RunStep
FairSpecViewer ==
    InitSubmit /\ [][SubmitNext]_vars /\ WF_vars(RunStep) /\ WF_vars(ViewRender)

(***************************************************************************)
(* One promise of requestTokensFromExtension at a time: its 'message'      *)
(* listener, its timer, the calls of resolve and reject it has seen (only  *)
(* the first settles it) and the value it settled with.  Window messages   *)
(* go on arriving after it has settled.                                    *)
(***************************************************************************)
MaxTokCalls == 2
MaxTokMessages == 2

\* cleanup: removeEventListener and clearTimeout
CleanupKeepsListener(listener, timer) == [listener |-> listener, timer |-> FALSE]
Cleanup(listener, timer) == [listener |-> FALSE, timer |-> FALSE]

\* the guard of handler
TokHandlerAccepts(ev) ==
    ~(ev.source # "window" \/ ~ev.hasData \/ ev.type # RESPONSE_TYPE)

\* cleanup(), then resolve or reject with what the outcome gives
CleanupAndSettle(outcome) ==
    /\ tokListener' = Cleanup(tokListener, tokTimer).listener
    /\ tokTimer' = Cleanup(tokListener, tokTimer).timer
    /\ tokSettles' = tokSettles + 1
    /\ tokResult' = IF tokSettles = 0 THEN RequestTokensFromExtension(outcome)
                    ELSE tokResult

\* handleSubmit calls requestTokensFromExtension: addEventListener,
\* postMessage (which may throw), setTimeout
TokCall(threw) ==
    /\ tokCalls < MaxTokCalls
    /\ tokCalls = 0 \/ tokSettles > 0
    /\ tokCalls' = tokCalls + 1
    /\ IF threw
       THEN /\ tokListener' = Cleanup(TRUE, FALSE).listener
            /\ tokTimer' = Cleanup(TRUE, FALSE).timer
            /\ tokSettles' = 1
            /\ tokResult' =
                  RequestTokensFromExtension([kind |-> "postMessage threw",
                                              payload |-> NoPayload])
            /\ tokEvent' = TokEvent("call", NoWindowEvent,
                                  [kind |-> "postMessage threw", payload |-> NoPayload])
       ELSE /\ tokListener' = TRUE
            /\ tokTimer' = TRUE
            /\ tokSettles' = 0
            /\ tokResult' = Pending
            /\ tokEvent' = TokEvent("call", NoWindowEvent, NoOutcome)
    /\ UNCHANGED tokMessages
    /\ UNCHANGED <<swVars, extVars, connVars, viewVars, apiVars, dashVars, histVars, htmlVars>>

\* a 'message' event is dispatched on the window
TokOnWindowMessage(ev, payload) ==
    LET outcome == [kind |-> "response", payload |-> payload] IN
    /\ tokMessages < MaxTokMessages
    /\ tokMessages' = tokMessages + 1
    /\ IF tokListener /\ TokHandlerAccepts(ev)
       THEN /\ CleanupAndSettle(outcome)
            /\ tokEvent' = TokEvent("handled", ev, outcome)
       ELSE /\ tokEvent' = TokEvent("ignored", ev, outcome)
            /\ UNCHANGED <<tokListener, tokTimer, tokSettles, tokResult>>
    /\ UNCHANGED tokCalls
    /\ UNCHANGED <<swVars, extVars, connVars, viewVars, apiVars, dashVars, histVars, htmlVars>>

\* the 7000 ms timer fires
TokTimeout ==
    LET outcome == [kind |-> "timeout", payload |-> NoPayload] IN
    /\ tokTimer
    /\ CleanupAndSettle(outcome)
    /\ tokEvent' = TokEvent("timeout", NoWindowEvent, outcome)
    /\ UNCHANGED <<tokCalls, tokMessages>>
    /\ UNCHANGED <<swVars, extVars, connVars, viewVars, apiVars, dashVars, histVars, htmlVars>>

TokNext ==
    \/ \E threw \in BOOLEAN : TokCall(threw)
    \/ \E ev \in WindowEvents, payload \in PagePayloads : TokOnWindowMessage(ev, payload)
    \/ TokTimeout

InitTokens ==
    /\ SwInit /\ ExtInit /\ ConnIdle /\ ViewIdle /\ ApiIdle /\ DashInit
    /\ HistIdle /\ TokInit /\ HtmlIdle
\* the timer of a pending call fires unless it is cleared
FairSpecTokens == InitTokens /\ [][TokNext]_vars /\ WF_vars(TokTimeout)

\* the mounted viewer of a problem with code, its handle held by the
\* parent
InitHandle ==
    /\ SwInit /\ ExtInit /\ ConnIdle /\ ApiIdle /\ DashInit /\ HistIdle /\ TokIdle /\ HtmlIdle
    /\ ViewInitWith("two-sum", "code", [x \in Slugs |-> Absent])
HandleNext ==
    \/ ViewRender
    \/ Submit
    \/ RunStep
SpecHandle == InitHandle /\ [][HandleNext]_vars

(***************************************************************************)
(* pages/Dashboard: SolutionViewer and LeetCodeSessionConnector mounted on *)
(* the same page.  A RESPONSE message the content script posts to the     *)
(* window is dispatched to every 'message' listener registered at that    *)
(* time: the connector's, and the one of a requestTokensFromExtension     *)
(* call that is waiting.                                                   *)
(***************************************************************************)
ResponseEvent == [source |-> "window", hasData |-> TRUE, type |-> RESPONSE_TYPE]

PageResponse(payload) ==
    /\ ConnHandler(ResponseEvent, payload)
    /\ IF \E i \in 1..Len(runs) : runs[i].pc = "tokens"
       THEN \E i \in 1..Len(runs) :
               /\ runs[i].pc = "tokens"
               /\ TokensSettle(i, [kind |-> "response", payload |-> payload])
       ELSE /\ viewEvent' = NoViewEvent
            /\ UNCHANGED <<questionSlug, displayCode, isSubmitting, stateVars,
                           renderedSlug, renderedCode, dirty, buttonDisabled,
                           localStorage, runs, nextRun, lastPersisted>>
    /\ UNCHANGED <<swVars, extVars, apiVars, dashVars, histVars, tokVars, htmlVars>>

PageNext ==
    \/ \E payload \in TokenPayloads : PageResponse(payload)
    \/ ViewRender
    \/ HandleSubmit
    \/ ConnHandleFetch
    \/ \E i \in 1..Len(runs) :
        \/ HandleSubmitTokens(i, [kind |-> "timeout", payload |-> NoPayload])
        \/ \E ok \in BOOLEAN : BackendStore(i, ok)
        \/ HandleSubmitStored(i)
        \/ HandleSubmitSubmitted(i, TRUE, NoResponse)
        \/ \E response \in SubmitResponses(runs[i].id, runs[i].slug) :
              HandleSubmitSubmitted(i, FALSE, response)
    \/ \E i \in 1..Len(connTasks) :
        \/ \E ok \in BOOLEAN : BackendSession(i, ok)
        \/ ConnHandlerResume(i)
        \/ ConnMountResume(i)
InitPage ==
    /\ SwInit /\ ExtInit /\ ConnIdle /\ ApiIdle /\ DashInit /\ HistIdle /\ TokIdle /\ HtmlIdle
    /\ ViewInitWith("two-sum", "code", [x \in Slugs |-> Absent])
SpecPage == InitPage /\ [][PageNext]_vars

(***************************************************************************)
(* Properties of the extension.                                            *)
(***************************************************************************)

\* C1: the service worker's response depends on the cookie jar only
\* through the leetcode.com cookies named LEETCODE_SESSION and csrftoken:
\* any jar that agrees with the one read on those cookies yields the same
\* response, whatever else either jar holds.
C1_ResponseOnlyCapturedCookies ==
    swPc = "responded" =>
        \A other \in CookieStores :
            Captured(other) = Captured(swStore) =>
                CookiesCallback(other, swLastError) = swResponse

\* a response carrying a session value, read from a jar that also holds a
\* cookie outside the captured ones
C1_Witness ==
    /\ swPc = "responded"
    /\ swLastError = NoError
    /\ swResponse.leetcodeSession = "s1"
    /\ Len(Captured(swStore)) < Len(swStore)

\* a cookie of the given name that the leetcode.com query returns
FoundIn(store, name) ==
    \E i \in 1..Len(store) :
        store[i].name = name /\ store[i].domain = "leetcode.com"

\* the value of the first such cookie
FirstValue(store, name) ==
    LET i == CHOOSE k \in 1..Len(store) :
                 /\ store[k].name = name /\ store[k].domain = "leetcode.com"
                 /\ \A j \in 1..(k - 1) :
                       ~(store[j].name = name /\ store[j].domain = "leetcode.com")
    IN store[i].value

\* C8: ok is true exactly when both cookies were found; a found cookie is
\* reported by its value (never null), a missing one as null; a cookies-API
\* error yields {ok: false, error} and no cookie values.
C8_ResponseShape ==
    swPc = "responded" =>
        IF swLastError # NoError
        THEN swResponse = Payload(FALSE, swLastError, Undefined, Undefined)
        ELSE /\ swResponse.ok =
                   (FoundIn(swStore, "LEETCODE_SESSION") /\ FoundIn(swStore, "csrftoken"))
             /\ swResponse.leetcodeSession =
                   IF FoundIn(swStore, "LEETCODE_SESSION")
                   THEN FirstValue(swStore, "LEETCODE_SESSION") ELSE Null
             /\ swResponse.csrfToken =
                   IF FoundIn(swStore, "csrftoken")
                   THEN FirstValue(swStore, "csrftoken") ELSE Null
             /\ swResponse.ok =>
                   swResponse.leetcodeSession # Null /\ swResponse.csrfToken # Null

\* one cookie present and the other missing: ok is false, one value, one null
C8_Witness ==
    /\ swPc = "responded"
    /\ swLastError = NoError
    /\ ~swResponse.ok
    /\ swResponse.leetcodeSession = "s1"
    /\ swResponse.csrfToken = Null

C7_Payloads ==
    \A i \in 1..Len(reqs) :
        LET r == reqs[i] IN
        /\ r.cs = "sent" => r.posts = <<>>
        /\ r.cs = "done" =>
              /\ Len(r.posts) = 1
              /\ r.posts[1] =
                    IF r.cbError # NoError
                    THEN Payload(FALSE, r.cbError, Undefined, Undefined)
                    ELSE IF r.cbHasResponse THEN r.response
                         ELSE Payload(FALSE, "No response from extension.",
                                      Undefined, Undefined)

\* C7: every accepted REQUEST message is answered by exactly one RESPONSE
\* message: never more than one, eventually one, and its payload is
\* {ok: false, error: lastError} when lastError is set, else the service
\* worker's response when there is one, else the 'No response' error.
C7_ExactlyOneResponse ==
    /\ []C7_Payloads
    /\ \A i \in 1..MaxEvents :
          (Len(reqs) >= i) ~> (Len(reqs) >= i /\ Len(reqs[i].posts) = 1)

\* two requests answered, one with the cookies and one with a port error
C7_Witness ==
    /\ Len(reqs) = 2
    /\ reqs[1].cs = "done" /\ reqs[1].cbHasResponse /\ reqs[1].posts[1].ok
    /\ reqs[2].cs = "done" /\ reqs[2].cbError # NoError

(***************************************************************************)
(* Properties of LeetCodeSessionConnector.                                 *)
(***************************************************************************)

\* C9: the connector calls storeLeetCodeSession exactly for a RESPONSE whose
\* payload has ok true and non-empty leetcodeSession and csrfToken, with
\* those two values; for any other payload the step sets status 'error'
\* and starts no request.
C9_StoreOnlyWhenComplete ==
    [][connEvent'.kind = "handled" =>
         LET p == connEvent'.payload
             complete == /\ p.ok
                         /\ p.leetcodeSession \notin {Null, Undefined, ""}
                         /\ p.csrfToken \notin {Null, Undefined, ""}
         IN IF complete
            THEN connTasks' = Append(connTasks,
                    ConnTask("handler", "post",
                             Tokens(p.leetcodeSession, p.csrfToken), NoData))
            ELSE /\ connTasks' = connTasks
                 /\ connStatus' = "error"]_vars

\* a complete payload handled: the POST with its two values is in flight
C9_Witness ==
    /\ connEvent.kind = "handled"
    /\ connEvent.payload.ok
    /\ connEvent.stored
    /\ \E i \in 1..Len(connTasks) :
          /\ connTasks[i].kind = "handler" /\ connTasks[i].pc = "post"
          /\ connTasks[i].tokens = Tokens("s1", "s1")

\* C10 (as claimed): when handleDisconnect ends after a successful DELETE,
\* status is 'disconnected', connected is false and both tokens are null.
C10_DisconnectRevokes ==
    (connEvent.kind = "disconnected" /\ connEvent.cleared) =>
        /\ connStatus = "disconnected"
        /\ connected = FALSE
        /\ connTokens = NoTokens

\* C11: the content script has sent LEETCODE_FETCH_COOKIES only for window
\* messages whose source is the page's own window and whose data.type is
\* LEETCODE_FETCH_COOKIES_REQUEST; the service worker reads cookies only
\* for a runtime message of type LEETCODE_FETCH_COOKIES, and a message of
\* any other type changes neither what it reads nor what it has sent.
C11_OnlyOwnRequest ==
    /\ [](\A i \in 1..Len(reqs) :
            /\ reqs[i].message = FETCH_COOKIES
            /\ reqs[i].event.source = "window"
            /\ reqs[i].event.hasData
            /\ reqs[i].event.type = REQUEST_TYPE)
    /\ [](swPc = "reading" => swMessage = FETCH_COOKIES)
    /\ [][swMessage' # FETCH_COOKIES =>
             UNCHANGED <<swPc, swStore, swLastError, swResponse>>]_vars
    /\ [][swResponse' # swResponse /\ swPc' = "responded" =>
             swPc = "reading" /\ swMessage = FETCH_COOKIES]_vars
C11_Witness ==
    /\ Len(reqs) >= 1
    /\ swPc = "responded"
    /\ swResponse.ok
    /\ swMessage = "OTHER"

\* C19: one RESPONSE message delivered to the page makes at most one
\* POST /api/leetcode/session: the delivery that makes the connector call
\* storeLeetCodeSession does not also resolve a waiting
\* requestTokensFromExtension, whose handleSubmit then calls
\* storeLeetCodeSession with the same tokens.
C19_OnePostPerResponse ==
    ~(/\ connEvent.kind = "handled"
      /\ connEvent.stored
      /\ viewEvent.kind = "resolved"
      /\ \E t \in 1..Len(connTasks), i \in 1..Len(runs) :
            /\ connTasks[t].kind = "handler"
            /\ connTasks[t].pc = "post"
            /\ runs[i].pc = "store"
            /\ runs[i].tokens = connTasks[t].tokens
            /\ runs[i].tokens = connEvent.args)

\* C20: after handleFetch the connector leaves status 'fetching' for
\* 'success' or 'error', which enables the fetch button again, also when
\* no extension answers the request.
C20_FetchingEnds ==
    (connStatus = "fetching") ~> (connStatus \in {"success", "error"})

(***************************************************************************)
(* Properties of the Dashboard.                                            *)
(***************************************************************************)

\* C12: the dashboard renders only metadata and links of references: no
\* response it has fetched holds solution code, and SolutionViewer shows
\* none.
C12_NoSolutionCode ==
    /\ \A key \in RefKeys : refsQueries[key].data.code = Null
    /\ Rendered("SolutionViewer") = "content" => ReferencesQuery.data.code = Null

\* C21: whenever submitSolution is called, the references of the current
\* POTD slug and the selected language have been fetched, and the payload
\* holds that language and the code of the community solution of that
\* response, never one kept from a previously selected language.
C21_SubmitsSelectedLanguageCode ==
    [][dashEvent'.kind = "submitSolution"
        => (/\ potdQuery.data \in Slugs
            /\ refsQueries[<<potdQuery.data, language>>].data # NoRefs
            /\ dashEvent'.params.lang
                  = refsQueries[<<potdQuery.data, language>>].data.language
            /\ dashEvent'.params.code
                  = refsQueries[<<potdQuery.data, language>>].data.code)]_vars

C16_TryAgainRefetchesFailedQuery ==
    /\ [](\A c \in Components :
            /\ (Rendered(c) = "error")
                 <=> (~PropIsLoading(c) /\ PropErrorMessage(c) # Null)
            /\ PropIsLoading(c) => Rendered(c) = "skeleton")
    /\ [][\A c \in Components :
            dashEvent'.by = c
            => (/\ Rendered(c) = "error"
                /\ IF c = "PotdCard"
                   THEN /\ potdQuery.error # Null
                        /\ dashEvent'.kind = "getPOTD"
                        /\ potdQuery'.fetching
                   ELSE /\ ReferencesQuery.error # Null
                        /\ dashEvent'.kind = "getReferences"
                        /\ dashEvent'.params.slug = potdQuery.data
                        /\ refsQueries'[<<potdQuery.data, language>>].fetching)]_vars
C16_Witness ==
    /\ dashEvent.by = "SolutionViewer"
    /\ dashEvent.kind = "getReferences"
    /\ Rendered("SolutionViewer") = "skeleton"
    /\ Rendered("PotdCard") = "error"

(***************************************************************************)
(* Properties of SolutionViewer.                                           *)
(***************************************************************************)

\* every step, the result and the error come from run id
FromRun(steps, result, error, id) ==
    /\ \A k \in 1..Len(steps) : steps[k].run = id
    /\ result = NoResult \/ result.run = id
    /\ error = NoErr \/ error.run = id

\* every step, the result and the error come from a submission for slug
ForSlug(steps, result, error, slug) ==
    /\ \A k \in 1..Len(steps) : steps[k].slug = slug
    /\ result = NoResult \/ result.slug = slug
    /\ error = NoErr \/ error.slug = slug

\* C2: in every handleSubmit run, submitSolution is invoked only after
\* requestTokensFromExtension resolved and storeLeetCodeSession succeeded
\* in that run; a run in which the fetch or the store failed has ended
\* without invoking it.
C2_SubmitOnlyAfterSession ==
    \A i \in 1..Len(runs) :
        /\ runs[i].submitted => runs[i].resolved /\ runs[i].stored
        /\ runs[i].pc = "submit" <=> runs[i].submitted
        /\ runs[i].pc \in {"store", "storeOk", "storeFail"} => runs[i].resolved
        /\ runs[i].pc = "storeFail" => ~runs[i].submitted /\ ~runs[i].stored
C2_Witness ==
    \E i \in 1..Len(runs) :
        runs[i].pc = "submit" /\ runs[i].resolved /\ runs[i].stored

\* C4: when questionSlug is not null and the persistence effect has run
\* for the current state, the entry of that slug is absent if steps is
\* empty, result is null and error is null or empty, and otherwise is the
\* JSON text of {steps, result, error}.
C4_EntryMatchesState ==
    (questionSlug \in Slugs /\ ~dirty) =>
        localStorage[GetStorageKey(questionSlug)] =
            IF /\ Len(submissionSteps) = 0
               /\ submissionResult = NoResult
               /\ submissionError.msg \in {Null, ""}
            THEN Absent
            ELSE JsonStringify(submissionSteps, submissionResult, submissionError)
C4_Witness ==
    /\ questionSlug \in Slugs
    /\ ~dirty
    /\ Len(submissionSteps) = 0
    /\ submissionResult = NoResult
    /\ submissionError.run = 1
    /\ submissionError.msg # ""
    /\ localStorage[GetStorageKey(questionSlug)] # Absent

\* C6: when the load effect runs for a slug whose entry the persistence
\* effect wrote (or removed), the restored steps, result and error are the
\* values last persisted for that slug, and what the persistence effect
\* then stores for them is the entry that was read.
C6_RestoreRoundTrip ==
    [][\A slug \in Slugs :
          (/\ renderedSlug' # renderedSlug
           /\ renderedSlug' = slug
           /\ lastPersisted[slug] # Foreign)
          => /\ Values(submissionSteps', submissionResult', submissionError')
                  = lastPersisted[slug]
             /\ Persisted(submissionSteps', submissionResult', submissionError')
                  = localStorage[GetStorageKey(slug)]]_vars
C6_Witness ==
    /\ viewEvent.kind = "effects"
    /\ viewEvent.history = questionSlug
    /\ questionSlug \in Slugs
    /\ Len(submissionSteps) > 0
    /\ submissionSteps[1].run = 1
    /\ submissionSteps[1].slug = questionSlug
    /\ submissionError.msg = "Wrong Answer"
    /\ runs = <<>>

\* C22: at most one submission workflow of a SolutionViewer is in flight:
\* handleSubmit, called by the button or through the imperative handle,
\* starts no cookie-fetch/store/submit sequence while isSubmitting is true,
\* and no two submitSolution requests overlap.
C22_OneWorkflowInFlight ==
    /\ [][Len(runs') > Len(runs) => ~isSubmitting]_vars
    /\ [](Cardinality({i \in 1..Len(runs) : runs[i].attached}) <= 1)

\* C23: once every getRecentSubmissions request has settled, the list and
\* hasMoreSubmissions of SolutionViewer are those returned for the current
\* questionSlug by the latest request made for it (the empty list and false
\* when there is no slug); a failed last load, which the error line shows,
\* is left aside.
C23_HistoryOfCurrentSlug ==
    historyLoads = <<>> =>
        IF Falsy(historySlug)
        THEN recentSubmissions = NoSubmissions /\ ~hasMoreSubmissions
        ELSE submissionsError = Null =>
                /\ recentSubmissions.slug = historySlug
                /\ recentSubmissions.req = historyLatest[historySlug]
                /\ hasMoreSubmissions = recentSubmissions.has_next

\* C24: the promise of requestTokensFromExtension settles exactly once:
\* resolve or reject is called once for each call, and a pending promise
\* is settled in the end; it resolves only on a RESPONSE of the same window
\* whose payload has ok and both tokens, and rejects on the other payloads,
\* on a postMessage failure and on the timer; once it has settled the
\* listener is removed and the timer cleared, and later messages change
\* nothing.
C24_SettlesExactlyOnce ==
    /\ [](tokSettles <= 1)
    /\ [](tokSettles = 1 => ~tokListener /\ ~tokTimer)
    /\ [][tokSettles' = 1 /\ tokEvent'.kind \in {"call", "handled", "timeout"}
            => (/\ tokResult' = RequestTokensFromExtension(tokEvent'.outcome)
                /\ tokResult'.ok <=>
                      (/\ tokEvent'.kind = "handled"
                       /\ tokEvent'.outcome.payload.ok
                       /\ ~Falsy(tokEvent'.outcome.payload.leetcodeSession)
                       /\ ~Falsy(tokEvent'.outcome.payload.csrfToken)))]_vars
    /\ [][tokSettles = 1 /\ tokEvent'.kind \in {"handled", "ignored"}
            => (tokEvent'.kind = "ignored" /\ tokResult' = tokResult
                /\ tokSettles' = 1)]_vars
    /\ (tokListener /\ tokSettles = 0) ~> (tokSettles = 1)
\* a promise resolved by a first RESPONSE, and a second RESPONSE of the
\* window, with an error payload, arriving after it
C24_Witness ==
    /\ tokSettles = 1
    /\ tokResult.ok
    /\ tokEvent.kind = "ignored"
    /\ tokEvent.event = ResponseEvent
    /\ ~tokEvent.outcome.payload.ok

\* C25: in LeetCodeSessionConnector, whenever no request is in flight and
\* status is 'success', connected is true and tokens of a GET
\* /api/leetcode/session that reported connected: true are displayed; a
\* failed status refresh never leaves the connector showing 'success'.
C25_SuccessMeansConnected ==
    (connTasks = <<>> /\ connStatus = "success")
        => (connected /\ connTokens # NoTokens)

\* C26: decodeHtml decodes each of the entities &lt; &gt; &amp; &quot; &#39;
\* exactly once: applied to the HTML-escaping of a string it returns that
\* string.
C26_DecodeInvertsEscape ==
    decodeOutput # NotDecoded => decodeOutput = decodeInput

\* C27: request has exactly three outcomes: a plain Error 'Network error
\* while requesting <url>: ...' when fetch rejects; an ApiError with
\* response.status and the parsed body (JSON, null when JSON parsing fails,
\* text for non-JSON) when response.ok is false; the parsed body otherwise.
\* It returns no value for a non-2xx response.
C27_ThreeOutcomes ==
    apiOutcome # NotSettled =>
        LET body == IF IsJson(apiFetch.contentType)
                    THEN (IF apiFetch.body = "json" THEN "<parsed JSON>" ELSE Null)
                    ELSE (IF apiFetch.body = "json" THEN "<JSON text>" ELSE "<text>")
        IN
        /\ apiOutcome.kind \in {"Error", "ApiError", "return"}
        /\ apiFetch.rejected =>
              /\ apiOutcome.kind = "Error"
              /\ apiOutcome.message = "Network error while requesting"
              /\ apiOutcome.url = apiUrl
        /\ (~apiFetch.rejected /\ apiFetch.status \notin 200..299) =>
              /\ apiOutcome.kind = "ApiError"
              /\ apiOutcome.status = apiFetch.status
              /\ apiOutcome.data = body
        /\ (~apiFetch.rejected /\ apiFetch.status \in 200..299) =>
              /\ apiOutcome.kind = "return"
              /\ apiOutcome.data = body

\* C13: a handleSubmit run that reached submitSolution ends, once that
\* request has settled, with one call of loadRecentSubmissions for the slug
\* it submitted; a run that ends before submitSolution calls it for no
\* slug, and no other step of a run calls it.
C13_HistoryAfterSubmit ==
    [][/\ \A i \in 1..Len(runs) :
            (viewEvent'.kind \in {"ended", "endedUnmounted"}
             /\ viewEvent'.run = runs[i].id)
            => (/\ runs[i].pc \in {"tokens", "storeOk", "storeFail", "submit"}
                /\ viewEvent'.history =
                      IF runs[i].submitted THEN runs[i].slug ELSE NoHistory)
        /\ (viewEvent'.kind \in {"started", "refused", "none"}
             => viewEvent'.history = NoHistory)]_vars
C13_Witness ==
    /\ viewEvent.kind = "ended"
    /\ viewEvent.history \in Slugs
    /\ viewEvent.history # questionSlug

\* C14: every handleSubmit run that set isSubmitting to true sets it back
\* to false (backend requests settle, the 7 second timer fires): while the
\* viewer stays mounted isSubmitting is true exactly while a run is in
\* flight, and it leads to isSubmitting false with no run left.  The step
\* that ends a run leaves isSubmitting false and, when the run failed at
\* the cookie fetch, the session store or the submit call, submissionError
\* non-null, so that isSubmitDisabled is decided by slug and code alone.
C14_FailedRunCanBeRetried ==
    /\ isSubmitting ~> (~isSubmitting /\ runs = <<>>)
    /\ [](isSubmitting <=> runs # <<>>)
    /\ [][viewEvent'.kind = "started" => isSubmitting']_vars
    /\ [][viewEvent'.kind = "ended"
            => (/\ ~isSubmitting'
                /\ IsSubmitDisabled(displayCode', questionSlug', isSubmitting')
                     = (Falsy(displayCode') \/ Falsy(questionSlug'))
                /\ viewEvent'.failed
                     => submissionError'.msg \notin {Null, Undefined})]_vars
C14_Witness ==
    /\ viewEvent.kind = "ended"
    /\ viewEvent.failed
    /\ viewEvent.history \in Slugs
    /\ submissionError.msg = MSG_SUBMIT_FAILED
    /\ ~isSubmitting

\* C18: API_BASE_URL is VITE_API_BASE without its leading and trailing
\* blanks when the variable is set and has a non-blank character, and
\* http://localhost:8000 otherwise; the URL of a request is API_BASE_URL,
\* less one final '/' when it ends with one, followed by the path.
NonBlank(text) == \E k \in 1..Len(text) : ~IsWhitespace(text[k])
FirstNonBlank(text) ==
    CHOOSE k \in 1..Len(text) :
        ~IsWhitespace(text[k]) /\ \A j \in 1..(k - 1) : IsWhitespace(text[j])
LastNonBlank(text) ==
    CHOOSE k \in 1..Len(text) :
        ~IsWhitespace(text[k]) /\ \A j \in (k + 1)..Len(text) : IsWhitespace(text[j])
C18_BaseUrlAndRequestUrl ==
    /\ apiBaseUrl =
          IF viteApiBase.set /\ NonBlank(viteApiBase.text)
          THEN SubSeq(viteApiBase.text, FirstNonBlank(viteApiBase.text),
                      LastNonBlank(viteApiBase.text))
          ELSE DEFAULT_API_BASE
    /\ apiUrl # NoUrl =>
          LET n == Len(apiUrl)
              head == SubSeq(apiUrl, 1, n - 1)
          IN /\ apiUrl[n] \in Paths
             /\ \/ head = apiBaseUrl /\ (head = <<>> \/ head[Len(head)] # "/")
                \/ Append(head, "/") = apiBaseUrl
C18_Witness ==
    /\ viteApiBase = EnvString(<<" ", "/", "/">>)
    /\ apiBaseUrl = <<"/", "/">>
    /\ apiUrl = <<"/", "/api/potd">>

\* C17: a stored entry that JSON.parse rejects is treated as empty: the load
\* effect that reads it for the new questionSlug resets steps, result and
\* error; the corrupt text is gone from the entry once that render's effects
\* have run, and the next render's persistence effect, seeing the empty
\* state, leaves no entry under the key.
C17_CorruptTreatedAsEmpty ==
    /\ [][\A slug \in Slugs :
            (/\ renderedSlug' # renderedSlug
             /\ renderedSlug' = slug
             /\ localStorage[GetStorageKey(slug)] = CorruptText)
            => (/\ submissionSteps' = <<>>
                /\ submissionResult' = NoResult
                /\ submissionError' = NoErr
                /\ localStorage'[GetStorageKey(slug)] # CorruptText)]_vars
    /\ [][(/\ viewEvent.kind = "parseFailed"
           /\ viewEvent'.kind = "effects"
           /\ renderedSlug' = renderedSlug)
          => localStorage'[GetStorageKey(renderedSlug)] = Absent]_vars
    /\ [](renderedSlug \in Slugs
            => localStorage[GetStorageKey(renderedSlug)] # CorruptText)
C17_Witness ==
    /\ viewEvent.kind = "parseFailed"
    /\ questionSlug \in Slugs
    /\ renderedSlug = questionSlug
    /\ submissionSteps = <<>>
    /\ submissionResult = NoResult
    /\ submissionError = NoErr
    /\ localStorage[GetStorageKey(questionSlug)] = Absent

\* C3: once the effects have settled, the entry of every slug holds only
\* steps, a result and an error produced by a submission made for that
\* slug.
C3_SnapshotPerProblem ==
    ~dirty =>
        \A slug \in Slugs :
            LET text == localStorage[GetStorageKey(slug)] IN
            ForSlug(LoadedSteps(text), LoadedResult(text), LoadedError(text), slug)

\* C5: while a handleSubmit run that passed its guards is in flight, the
\* state, and once the effects have settled the entry of the run's slug,
\* hold nothing that is not of that run; when the run has ended the state
\* holds only that run's steps, result and error.
C5_AttemptReplacesPrevious ==
    /\ \A i \in 1..Len(runs) :
          runs[i].attached =>
             /\ FromRun(submissionSteps, submissionResult, submissionError, runs[i].id)
             /\ ~dirty =>
                  LET text == localStorage[GetStorageKey(runs[i].slug)] IN
                  FromRun(LoadedSteps(text), LoadedResult(text),
                          LoadedError(text), runs[i].id)
    /\ viewEvent.kind = "ended" =>
          FromRun(submissionSteps, submissionResult, submissionError, viewEvent.run)

====
